---------------------------- MODULE Spec2Model ----------------------------
(***************************************************************************)
(* A model of RedisClient (src/unnamed/part_004): the value transform      *)
(* pipeline and its two transform caches, the key/bulk operations, the     *)
(* namespace snapshot engine and the keyspace-notification router.         *)
(*                                                                         *)
(* JavaScript strings are sequences of one-character strings.  An          *)
(* application value is a pair <<typeof-tag, payload>> so that deep        *)
(* equality "of the same type" is plain equality of pairs.                 *)
(***************************************************************************)
EXTENDS Integers, Sequences, FiniteSets, TLC

(***************************************************************************)
(* Characters and strings                                                  *)
(***************************************************************************)

\* String.prototype.charCodeAt for the characters the model uses.
CharCode(c) ==
    CASE c = "\"" -> 34
      [] c = "," -> 44
      [] c = "-" -> 45
      [] c = "0" -> 48
      [] c = "1" -> 49
      [] c = "2" -> 50
      [] c = "3" -> 51
      [] c = "4" -> 52
      [] c = "5" -> 53
      [] c = "6" -> 54
      [] c = "7" -> 55
      [] c = "8" -> 56
      [] c = "9" -> 57
      [] c = ":" -> 58
      [] c = "A" -> 65
      [] c = "B" -> 66
      [] c = "J" -> 74
      [] c = "[" -> 91
      [] c = "]" -> 93
      [] c = "a" -> 97
      [] c = "b" -> 98
      [] c = "e" -> 101
      [] c = "f" -> 102
      [] c = "l" -> 108
      [] c = "n" -> 110
      [] c = "r" -> 114
      [] c = "s" -> 115
      [] c = "t" -> 116
      [] c = "u" -> 117
      [] c = "x" -> 120
      [] c = "y" -> 121
      [] c = "{" -> 123
      [] c = "}" -> 125

\* The digit characters of Number.prototype.toString(radix) up to radix 36.
Digit36 ==
    << "0", "1", "2", "3", "4", "5", "6", "7", "8", "9", "a", "b", "c", "d",
       "e", "f", "g", "h", "i", "j", "k", "l", "m", "n", "o", "p", "q", "r",
       "s", "t", "u", "v", "w", "x", "y", "z" >>

RECURSIVE NatToString(_, _)
\* The digits of the natural number n in the given radix, most significant first.
NatToString(n, radix) ==
    IF n < radix
    THEN << Digit36[n + 1] >>
    ELSE Append(NatToString(n \div radix, radix), Digit36[(n % radix) + 1])

\* Number.prototype.toString(radix) of an integer.
IntToString(n, radix) ==
    IF n < 0 THEN << "-" >> \o NatToString(0 - n, radix) ELSE NatToString(n, radix)

\* Array.prototype.slice(0, n) on a sequence.
Take(s, n) == SubSeq(s, 1, IF n < Len(s) THEN n ELSE Len(s))

\* Array.prototype.slice(n) on a sequence: everything after the first n.
Drop(s, n) == SubSeq(s, (IF n < Len(s) THEN n ELSE Len(s)) + 1, Len(s))

RECURSIVE ReplaceEvery(_, _)
\* String.prototype.replaceAll(pattern, '') with a non-empty string pattern:
\* the string without any occurrence of the pattern, scanning left to right.
ReplaceEvery(str, pattern) ==
    LET n == Len(pattern)
    IN  IF Len(str) < n THEN str
        ELSE IF SubSeq(str, 1, n) = pattern
        THEN ReplaceEvery(SubSeq(str, n + 1, Len(str)), pattern)
        ELSE << str[1] >> \o ReplaceEvery(Tail(str), pattern)

\* String.prototype.replace(pattern, '') with a string pattern: the string
\* without the first occurrence of the pattern, wherever that is.
ReplaceFirst(str, pattern) ==
    LET n == Len(pattern)
        starts == { i \in 1..(Len(str) - n + 1) : SubSeq(str, i, i + n - 1) = pattern }
    IN  IF starts = { } THEN str
        ELSE LET first == CHOOSE i \in starts : \A j \in starts : i <= j
             IN  SubSeq(str, 1, first - 1) \o SubSeq(str, first + n, Len(str))

(***************************************************************************)
(* _getCacheKey: a 32-bit rolling hash of at most the first 100 characters *)
(***************************************************************************)

\* The number of leading characters _getCacheKey hashes.
HASH_PREFIX_LEN == 100

\* 2^16: the hash is kept as two 16-bit halves <<hi, lo>> so that the 32-bit
\* wrap-around of ((hash << 5) - hash) + char, hash & hash is computed exactly.
Half == 65536

\* One round of the loop body: hash = (31 * hash + char) wrapped to 32 bits.
HashStep(h, code) ==
    LET lo == 31 * h[2] + code
        hi == 31 * h[1] + (lo \div Half)
    IN  << hi % Half, lo % Half >>

RECURSIVE HashFrom(_, _, _, _)
\* The loop of _getCacheKey over the characters lo..hi (1-based) in order,
\* starting from hash h: the left fold of HashStep, split in the middle.  The
\* test on the left half only makes the evaluator finish that half before it
\* starts the right one, which keeps the evaluation shallow.
HashFrom(str, lo, hi, h) ==
    IF lo > hi THEN h
    ELSE IF lo = hi THEN HashStep(h, CharCode(str[lo]))
    ELSE LET mid == (lo + hi) \div 2
             left == HashFrom(str, lo, mid, h)
         IN  IF left[1] < Half THEN HashFrom(str, mid + 1, hi, left) ELSE left

\* The two halves read as a signed 32-bit integer (what hash & hash leaves).
ToInt32(h) ==
    IF h[1] >= Half \div 2 THEN (h[1] - Half) * Half + h[2] ELSE h[1] * Half + h[2]

\* _getCacheKey(data) for a string: the hash rendered in base 36.
GetCacheKey(str) ==
    LET n == IF Len(str) < HASH_PREFIX_LEN THEN Len(str) ELSE HASH_PREFIX_LEN
    IN  IntToString(ToInt32(HashFrom(str, 1, n, << 0, 0 >>)), 36)

(***************************************************************************)
(* Application values and JSON                                             *)
(***************************************************************************)

Str(s) == << "string", s >>
Num(n) == << "number", n >>
Bool(b) == << "boolean", b >>
Null == << "null", << >> >>
Arr(xs) == << "array", xs >>
\* An object is the sequence of its <<key, value>> properties in insertion order.
Obj(ps) == << "object", ps >>

IsString(v) == v[1] = "string"

\* The elements of a sequence of strings joined by commas (Array.prototype.join).
RECURSIVE Join(_)
Join(parts) ==
    IF Len(parts) = 0 THEN << >>
    ELSE IF Len(parts) = 1 THEN parts[1]
    ELSE parts[1] \o << "," >> \o Join(Tail(parts))

\* JSON's quoting of a string (the strings of the model need no escapes).
Quote(s) == << "\"" >> \o s \o << "\"" >>

RECURSIVE JSONstringify(_)
\* JSON.stringify(value) for a value that is not undefined.
JSONstringify(v) ==
    CASE v[1] = "string" -> Quote(v[2])
      [] v[1] = "number" -> IntToString(v[2], 10)
      [] v[1] = "boolean" ->
            IF v[2] THEN << "t", "r", "u", "e" >> ELSE << "f", "a", "l", "s", "e" >>
      [] v[1] = "null" -> << "n", "u", "l", "l" >>
      [] v[1] = "array" ->
            << "[" >> \o Join([i \in 1..Len(v[2]) |-> JSONstringify(v[2][i])]) \o << "]" >>
      [] v[1] = "object" ->
            << "{" >>
            \o Join([i \in 1..Len(v[2]) |->
                        Quote(v[2][i][1]) \o << ":" >> \o JSONstringify(v[2][i][2])])
            \o << "}" >>

\* The values that may sit inside an array or an object of the model.
JsonAtoms == { Num(1), Num(42), Bool(TRUE), Null, Str(<< "a" >>) }

\* The arrays and objects JSON.parse can produce from the texts of the model.
JsonComposites ==
    { Arr(<< >>), Obj(<< >>) }
    \cup { Arr(<< a >>) : a \in JsonAtoms }
    \cup { Obj(<< << << "a" >>, a >> >>) : a \in JsonAtoms }

\* JSON.parse(text) for a text that starts with '{' or '[': the value whose
\* JSON text this is, or a SyntaxError (ok = FALSE).
JSONparse(text) ==
    IF \E v \in JsonComposites : JSONstringify(v) = text
    THEN [ok |-> TRUE, val |-> CHOOSE v \in JsonComposites : JSONstringify(v) = text]
    ELSE [ok |-> FALSE, val |-> Null]

\* JSON_START_CHARS
JSON_START_CHARS == { "{", "[" }

\* _parseJson(value): the parsed value, or the boolean false.
ParseJson(value) ==
    IF ~IsString(value) THEN Bool(FALSE)
    ELSE IF Len(value[2]) = 0 \/ value[2][1] \notin JSON_START_CHARS THEN Bool(FALSE)
    ELSE IF JSONparse(value[2]).ok THEN JSONparse(value[2]).val
    ELSE Bool(FALSE)

\* _serialize(value): strings pass through, everything else is JSON text.
Serialize(value) == IF IsString(value) THEN value[2] ELSE JSONstringify(value)

\* result !== false ? result : decompressed, as getKey, getBulk, hget and the
\* snapshot all decode a decompressed value.
Decode(decompressed) ==
    IF ParseJson(decompressed) # Bool(FALSE) THEN ParseJson(decompressed) ELSE decompressed

(***************************************************************************)
(* zlib and base64                                                         *)
(***************************************************************************)

\* The base64 text of a zlib stream starts with the two-byte zlib header
\* (0x78 0x9c, "eJ" in base64).
ZLIB_HEADER == << "e", "J" >>

\* deflateAsync(buffer).toString('base64'): an injective, prefix-preserving
\* encoding (a stored deflate block carries its payload verbatim).
DeflateBase64(str) == ZLIB_HEADER \o str

\* inflateAsync(Buffer.from(base64Data, 'base64')).toString('utf8'): throws
\* for a non-string and for text that is not a zlib stream.
InflateBase64(data) ==
    IF IsString(data) /\ Take(data[2], Len(ZLIB_HEADER)) = ZLIB_HEADER
    THEN [ok |-> TRUE, val |-> Drop(data[2], Len(ZLIB_HEADER))]
    ELSE [ok |-> FALSE, val |-> << >>]

(***************************************************************************)
(* The transform caches (JavaScript Maps: insertion-ordered)               *)
(***************************************************************************)

\* Map.prototype.has
CacheHas(cache, key) == \E i \in 1..Len(cache) : cache[i][1] = key

\* Map.prototype.get of a key the map has
CacheGet(cache, key) == cache[CHOOSE i \in 1..Len(cache) : cache[i][1] = key][2]

\* Map.set that leaves an entry that is already there as it is.
CacheSetIfAbsent(cache, key, val) ==
    IF CacheHas(cache, key) THEN cache ELSE Append(cache, << key, val >>)

\* Map.prototype.set: a present key keeps its place, a new key goes last.
CacheSet(cache, key, val) ==
    IF CacheHas(cache, key)
    THEN [i \in 1..Len(cache) |-> IF cache[i][1] = key THEN << key, val >> ELSE cache[i]]
    ELSE Append(cache, << key, val >>)

\* Math.floor(this.performanceThresholds.cacheSize * 0.2); NaN (no cacheSize
\* field) makes slice(0, NaN) empty.
EvictCount(th) == IF th.hasCacheSize THEN (th.cacheSize * 2) \div 10 ELSE 0

\* A cache management that deletes the keys inserted last.
EvictNewest(cache, th) ==
    IF th.hasCacheSize /\ Len(cache) >= th.cacheSize
    THEN Take(cache, Len(cache) - ((th.cacheSize * 2) \div 10))
    ELSE cache

\* "Manage cache size": size >= cacheSize (false against undefined) deletes
\* the first EvictCount keys of the map.
ManageCacheSize(cache, th) ==
    IF th.hasCacheSize /\ Len(cache) >= th.cacheSize
    THEN Drop(cache, EvictCount(th))
    ELSE cache

\* The string _getCacheKey hashes: the data itself when it is a string,
\* JSON.stringify(data) otherwise.
CacheKeyOf(data) == GetCacheKey(IF IsString(data) THEN data[2] ELSE JSONstringify(data))

\* _compress(data) with compression enabled, run to completion on its own:
\* the returned text, the compression cache afterwards and whether it hit.
CompressCached(cache, th, str) ==
    LET key == GetCacheKey(str) IN
    IF CacheHas(cache, key)
    THEN [val |-> CacheGet(cache, key), cache |-> cache, hit |-> TRUE]
    ELSE [val |-> DeflateBase64(str),
          cache |-> CacheSet(ManageCacheSize(cache, th), key, DeflateBase64(str)),
          hit |-> FALSE]

\* _decompress(base64Data) with compression enabled, run to completion on
\* its own: ok = FALSE when it throws (the miss is counted, nothing cached).
DecompressCached(cache, th, data) ==
    LET key == CacheKeyOf(data)
        inflated == InflateBase64(data)
    IN  IF CacheHas(cache, key)
        THEN [ok |-> TRUE, val |-> Str(CacheGet(cache, key)), cache |-> cache, hit |-> TRUE]
        ELSE IF inflated.ok
        THEN [ok |-> TRUE, val |-> Str(inflated.val),
              cache |-> CacheSet(ManageCacheSize(cache, th), key, inflated.val),
              hit |-> FALSE]
        ELSE [ok |-> FALSE, val |-> data, cache |-> cache, hit |-> FALSE]

(***************************************************************************)
(* Bounds and input sets                                                   *)
(***************************************************************************)

\* COMPRESSION_CACHE_MAX_SIZE
COMPRESSION_CACHE_MAX_SIZE == 2000

\* The most _compress/_decompress calls of one behaviour (performanceStats
\* counts every one of them as a hit or a miss).
MaxTransformCalls == 3

\* A run of HASH_PREFIX_LEN equal characters: two payloads that continue it
\* differently share their whole hashed prefix.
LongPrefix == [i \in 1..HASH_PREFIX_LEN |-> "a"]

\* The application values handed to the client: the empty string, a string
\* that is JSON text, a number, an object, and two strings with the same
\* fingerprint.
AppValues ==
    { Str(<< >>), Str(<< "{", "\"", "a", "\"", ":", "1", "}" >>),
      Num(42), Obj(<< << << "a" >>, Num(1) >> >>),
      Str(<< "A", "a" >>), Str(<< "B", "B" >>) }

\* The values whose serialized text _compress is called with: two short
\* texts with the same 32-bit hash ("Aa" and "BB"), two long ones that differ
\* only after the hashed prefix, and two values serialized as JSON text.
TransformValues ==
    { Str(<< "A", "a" >>), Str(<< "B", "B" >>),
      Str(LongPrefix \o << "x" >>), Str(LongPrefix \o << "y" >>),
      Num(42), Obj(<< << << "a" >>, Num(1) >> >>) }

\* The serialized texts _compress is called with.
Payloads == { Serialize(v) : v \in TransformValues }

\* The texts _decompress is called with: what _compress produced for some
\* payload, or text that was stored uncompressed.
StoredTexts == { DeflateBase64(p) : p \in Payloads } \cup Payloads

\* The performanceThresholds a client runs with: the constructor's, or an
\* object assigned before first use (with a small ceiling, with the smallest
\* ceiling that evicts at least one entry, or without a cacheSize field).
ThresholdConfigs ==
    { [hasCacheSize |-> TRUE, cacheSize |-> COMPRESSION_CACHE_MAX_SIZE],
      [hasCacheSize |-> TRUE, cacheSize |-> 1],
      [hasCacheSize |-> TRUE, cacheSize |-> 5],
      [hasCacheSize |-> FALSE, cacheSize |-> 0] }

\* REDIS_KEY_SEPARATOR
REDIS_KEY_SEPARATOR == << ":" >>

\* The namespaces and the local keys the caller uses.
Namespaces == { << "n" >> }
LocalKeys == { << "a" >>, << "b" >> }

\* `${namespace}${REDIS_KEY_SEPARATOR}${key}`
FormatKey(namespace, key) == namespace \o REDIS_KEY_SEPARATOR \o key

\* The keys of the store.
RedisKeys == { FormatKey(ns, k) : ns \in Namespaces, k \in LocalKeys }

\* What the store holds under a key that does not exist (TYPE answers "none").
NoEntry == << "none", << >> >>

\* The size at which _formatKey clears the key-format cache.
KEY_FORMAT_CACHE_MAX == 1000

\* _formatKey answering from the cache whenever the cache is at its limit.
FormatKeyStale(cache, namespace, key) ==
    IF Len(cache) >= KEY_FORMAT_CACHE_MAX
    THEN [val |-> cache[1][2], cache |-> cache]
    ELSE [val |-> FormatKey(namespace, key),
          cache |-> CacheSet(cache, FormatKey(namespace, key), FormatKey(namespace, key))]

\* _formatKey(namespace, key): the formatted key and the key-format cache
\* afterwards.
FormatKeyCached(cache, namespace, key) ==
    LET cacheKey == FormatKey(namespace, key)
        formatted == FormatKey(namespace, key)
    IN  IF CacheHas(cache, cacheKey)
        THEN [val |-> CacheGet(cache, cacheKey), cache |-> cache]
        ELSE [val |-> formatted,
              cache |-> CacheSet(IF Len(cache) >= KEY_FORMAT_CACHE_MAX THEN << >> ELSE cache,
                                 cacheKey, formatted)]

(***************************************************************************)
(* State                                                                   *)
(***************************************************************************)

VARIABLES
    enableCompression,      \* this.enableCompression
    performanceThresholds,  \* this.performanceThresholds
    compressionCache,       \* this.compressionCache
    decompressionCache,     \* this.decompressionCache
    keyFormatCache,         \* this.keyFormatCache
    performanceStats,       \* this.performanceStats (the three counters)
    store,                  \* the store behind this.client: key -> <<type, content>>
    expires,                \* the keys of the store that carry a time to live
    lastWrite,              \* the caller's record of its last setKey/setBulk
    ret,                    \* the last finished call: what it was and what it gave back
    keyspaceEventsConfigured, \* this.keyspaceEventsConfigured
    subClient,              \* this.subClient: "null" before it is created, then its connection state
    subscribedNamespaces,   \* this.subscribedNamespaces, in insertion order
    listeners,              \* the listener closures registered on subClient, per namespace pattern
    tasks,                  \* the calls in flight: the application's and the 'ready' handler's runs
    subQueue,               \* the calls whose command on subClient is not answered yet, oldest first
    disconnects,            \* how often the notification connection was lost
    subscribeCalls,         \* how many subscribeToKeyspaceEvents calls the application made
    lastDelivery,           \* the store notification of the last step and the 'keyspace' events emitted for it
    unissued,                \* the namespaces a 'ready' event found registered and not yet re-issued
    handled,                \* the run of the 'ready' handler that the last step completed
    configSets,             \* how many CONFIG SET commands were sent on this.client, up to MaxConfigSets
    snapshot,               \* the getNamespaceSnapshot call in flight or just finished
    batched,                \* the setBulkBatched or getBulkBatched call in flight or just finished
    connection,             \* the main store connection: the handles created, this.client, this.connectionCheckCache
    inflight,               \* the _compress and _decompress calls that run side by side, and who stored last
    subscription            \* the notification handles created and the subscribeToKeyspaceEvents calls that run side by side

transformVars ==
    << enableCompression, performanceThresholds, compressionCache,
       decompressionCache, performanceStats >>

storeVars == << keyFormatCache, store, expires, lastWrite >>

notifyVars ==
    << keyspaceEventsConfigured, subClient, subscribedNamespaces, listeners, tasks,
       subQueue, disconnects, subscribeCalls, lastDelivery, unissued, handled,
       configSets >>

vars == << transformVars, storeVars, ret, notifyVars, snapshot, batched, connection, inflight, subscription >>

\* performanceStats as the constructor and resetPerformanceStats set it.
ZeroStats == [cacheHits |-> 0, cacheMisses |-> 0, operationCount |-> 0]

\* No call has finished yet.
NoCall == [op |-> "none", arg |-> Null, ok |-> TRUE, val |-> Null]

\* No write has been made yet.
NoWrite == [op |-> "none", namespace |-> << >>, entries |-> << >>]

\* How often the notification connection is lost in one behaviour.
MaxDisconnects == 2

\* How many subscribeToKeyspaceEvents calls the application makes.
MaxSubscribeCalls == 1

\* The namespaces the application subscribes to.
SubscriptionNamespaces == { << "n" >>, << "m" >> }

\* The count of CONFIG SET commands at which counting stops.
MaxConfigSets == 2

\* The calls of the application: it awaits each call before the next.
AppTasks == { << "app", 1 >> }

\* The runs of the 'ready' handler: one per 'ready' event, the first connect's
\* (0) and each reconnect's.
HandlerTasks == { << "ready", k >> : k \in 0..MaxDisconnects }

Tasks == AppTasks \cup HandlerTasks

\* No call in flight.
Idle == [pc |-> "idle", namespaces |-> << >>, i |-> 0, next |-> 0,
         before |-> { }, clean |-> TRUE]

\* No notification delivered in this step.
NoDelivery == [namespace |-> << >>, key |-> << >>, event |-> "", registered |-> FALSE,
               emitted |-> << >>]

\* No run of the 'ready' handler completed in this step.
NoRun == [done |-> FALSE, clean |-> TRUE, before |-> { }, after |-> { }]

\* No getNamespaceSnapshot call made yet.
NoSnapshot ==
    [pc |-> "idle", namespace |-> << >>, batchSize |-> 0, keys |-> << >>, i |-> 0,
     typeResults |-> << >>, result |-> << >>, writes |-> 0, unknown |-> FALSE,
     trips |-> << >>, calls |-> 0]

\* No setBulkBatched or getBulkBatched call made yet.
NoBatched ==
    [pc |-> "idle", op |-> "none", namespace |-> << >>, items |-> << >>, batchSize |-> 0,
     ttl |-> 0, i |-> 0, submitted |-> << >>, completed |-> 0, results |-> << >>,
     calls |-> 0]

\* The callers whose subscribeToKeyspaceEvents calls overlap.
SubscribeTasks == { 1, 2 }

\* No notification handle created and no overlapping call made yet:
\* this.subClient (client) is null, written 0.
NoSubscription ==
    [handles |-> 0, client |-> 0,
     pc |-> [t \in SubscribeTasks |-> "idle"],
     namespace |-> [t \in SubscribeTasks |-> << >>],
     sentOn |-> [t \in SubscribeTasks |-> 0],
     patterns |-> { }, calls |-> 0]

\* The callers whose _compress and _decompress calls overlap.
RaceTasks == { 1, 2 }

\* A caller that has not called yet.
NotCalled == [pc |-> "idle", op |-> "none", arg |-> << >>, hit |-> FALSE, ok |-> TRUE,
              val |-> << >>]

\* No transform call is in flight and none has stored a result.
NoneInFlight ==
    [call |-> [t \in RaceTasks |-> NotCalled], lastStore |-> [compress |-> 0, decompress |-> 0]]

\* The most handles createClient is followed to on the main connection.
MaxHandles == 3

\* The application calls that run _ensureClientConnected and then a command.
ConnectTasks == { 1, 2 }

\* The main connection as the constructor leaves it: this.client is the first
\* handle, its connect() is pending (isOpen is true from the call of
\* connect() on), connectionCheckCache is invalid, no pipeline was created.
\* check.fresh stands for now - timestamp < CONNECTION_CACHE_TTL.
NewConnection ==
    [handles |-> 1, client |-> 1, isOpen |-> << TRUE >>, initialized |-> FALSE,
     check |-> [isValid |-> FALSE, fresh |-> FALSE], pipeline |-> 0,
     pc |-> [t \in ConnectTasks |-> "idle"], handle |-> [t \in ConnectTasks |-> 0]]

\* A client built with the given enableCompression argument and thresholds,
\* in front of a store with the given content, that has made no transform
\* call yet and whose _formatKey calls so far left the given key-format cache.
RunningWith(compression, th, content, formatted, compressed, decompressed) ==
    /\ enableCompression = compression
    /\ performanceThresholds = th
    /\ compressionCache = compressed
    /\ decompressionCache = decompressed
    /\ keyFormatCache = formatted
    /\ performanceStats = ZeroStats
    /\ store = content
    /\ expires = { }
    /\ lastWrite = NoWrite
    /\ ret = NoCall
    /\ keyspaceEventsConfigured = FALSE
    /\ subClient = "null"
    /\ subscribedNamespaces = << >>
    /\ listeners = [ns \in SubscriptionNamespaces |-> 0]
    /\ tasks = [t \in Tasks |-> Idle]
    /\ subQueue = << >>
    /\ disconnects = 0
    /\ subscribeCalls = 0
    /\ lastDelivery = NoDelivery
    /\ unissued = { }
    /\ handled = NoRun
    /\ configSets = 0
    /\ snapshot = NoSnapshot
    /\ batched = NoBatched
    /\ connection = NewConnection
    /\ inflight = NoneInFlight
    /\ subscription = NoSubscription

\* The state of a running client whose transform caches are empty.
Running(compression, th, content, formatted) ==
    RunningWith(compression, th, content, formatted, << >>, << >>)

\* The state of a client right after `new RedisClient(...)` with the given
\* enableCompression argument and running with the given thresholds, in
\* front of a store with the given content.
Constructed(compression, th, content) == Running(compression, th, content, << >>)

\* performanceStats after one more hit or miss.
CountLookup(stats, hit) ==
    IF hit
    THEN [stats EXCEPT !.cacheHits = @ + 1]
    ELSE [stats EXCEPT !.cacheMisses = @ + 1]

TransformCalls == performanceStats.cacheHits + performanceStats.cacheMisses

(***************************************************************************)
(* _compress and _decompress called on their own                           *)
(***************************************************************************)

\* _compress without the enableCompression test: every call goes through the
\* compression cache and zlib.
CompressCallAlways(cache, stats, text) ==
    LET r == CompressCached(cache, performanceThresholds, text)
    IN  [val |-> r.val, cache |-> r.cache, stats |-> CountLookup(stats, r.hit)]

\* _compress(text) as one call: the text it returns, the compression cache
\* and the counters afterwards.
CompressCall(cache, stats, text) ==
    IF ~enableCompression
    THEN [val |-> text, cache |-> cache, stats |-> stats]
    ELSE LET r == CompressCached(cache, performanceThresholds, text)
         IN  [val |-> r.val, cache |-> r.cache, stats |-> CountLookup(stats, r.hit)]

\* _decompress(data) as one call: ok = FALSE when it throws.
DecompressCall(cache, stats, data) ==
    IF ~enableCompression
    THEN [ok |-> TRUE, val |-> data, cache |-> cache, stats |-> stats]
    ELSE LET r == DecompressCached(cache, performanceThresholds, data)
         IN  [ok |-> r.ok, val |-> r.val, cache |-> r.cache,
              stats |-> CountLookup(stats, r.hit)]

\* await this._compress(str)
Compress(str) ==
    /\ TransformCalls < MaxTransformCalls
    /\ LET r == CompressCall(compressionCache, performanceStats, str) IN
        /\ compressionCache' = r.cache
        /\ performanceStats' = r.stats
        /\ ret' = [op |-> "_compress", arg |-> Str(str), ok |-> TRUE, val |-> Str(r.val)]
    /\ UNCHANGED << enableCompression, performanceThresholds, decompressionCache, storeVars, notifyVars, snapshot, batched, connection, inflight, subscription >>

\* await this._decompress(data)
Decompress(data) ==
    /\ TransformCalls < MaxTransformCalls
    /\ LET r == DecompressCall(decompressionCache, performanceStats, data) IN
        /\ decompressionCache' = r.cache
        /\ performanceStats' = r.stats
        /\ ret' = [op |-> "_decompress", arg |-> data, ok |-> r.ok, val |-> r.val]
    /\ UNCHANGED << enableCompression, performanceThresholds, compressionCache, storeVars, notifyVars, snapshot, batched, connection, inflight, subscription >>

\* The store with no key in it.
EmptyStore == [k \in RedisKeys |-> NoEntry]

InitTransform ==
    \E compression \in BOOLEAN, th \in ThresholdConfigs :
        Constructed(compression, th, EmptyStore)

NextTransform ==
    \/ \E str \in Payloads : Compress(str)
    \/ \E text \in StoredTexts : Decompress(Str(text))

\* A client on which _compress and _decompress are called in any order.
SpecTransform == InitTransform /\ [][NextTransform]_vars

(***************************************************************************)
(* _compress and _decompress on full caches                                *)
(***************************************************************************)

\* The most entries a transform cache holds when the calls start.
MaxFilled == 10

\* Texts with pairwise different fingerprints, one more than MaxFilled.
EvictTexts == << << "0" >>, << "1" >>, << "2" >>, << "3" >>, << "4" >>, << "5" >>,
                << "6" >>, << "7" >>, << "8" >>, << "9" >>, << "a" >> >>

\* The compression cache after _compress has missed on the first k texts.
FilledCompression(k) ==
    [i \in 1..k |-> << GetCacheKey(EvictTexts[i]), DeflateBase64(EvictTexts[i]) >>]

\* The decompression cache after _decompress has missed on the compressed
\* form of the first k texts.
FilledDecompression(k) ==
    [i \in 1..k |-> << GetCacheKey(DeflateBase64(EvictTexts[i])), EvictTexts[i] >>]

\* The ceilings of the caches and how many entries they hold at the start:
\* one that evicts nothing, the smallest that evicts an entry, and one that
\* evicts two.
FilledConfigs ==
    { << 1, 0 >>, << 1, 1 >>, << 5, 4 >>, << 5, 5 >>, << MaxFilled, MaxFilled - 1 >>,
      << MaxFilled, MaxFilled >> }

\* A client whose caches earlier calls have filled, right after
\* resetPerformanceStats().
InitEvict ==
    \E config \in FilledConfigs :
        RunningWith(TRUE, [hasCacheSize |-> TRUE, cacheSize |-> config[1]], EmptyStore,
                    << >>, FilledCompression(config[2]), FilledDecompression(config[2]))

NextEvict ==
    \/ \E i \in 1..Len(EvictTexts) : Compress(EvictTexts[i])
    \/ \E i \in 1..Len(EvictTexts) : Decompress(Str(DeflateBase64(EvictTexts[i])))

\* _compress and _decompress called in any order on caches at their ceiling.
SpecEvict == InitEvict /\ [][NextEvict]_vars

(***************************************************************************)
(* Key and bulk operations                                                 *)
(***************************************************************************)

\* The most entries of one setBulk and keys of one getBulk.
MaxBulk == 2

\* The largest operationCount a behaviour runs up to.
MaxOperationCount == 2

\* The largest counter value incrementCounter is followed to.
MaxCounter == 1

\* The expirationInSeconds arguments: none (undefined, falsy) or a minute.
TTLs == { 0, 60 }

\* What a call that returns nothing gives back.
Undefined == << "undefined", << >> >>

\* A plain object returned by a bulk read: the function from its own keys.
Mapping(f) == << "mapping", f >>

\* The sequences over S of at most n elements.
SeqsUpTo(S, n) == UNION { [1..m -> S] : m \in 0..n }

\* The key lists getBulk is called with.
KeyLists == SeqsUpTo(LocalKeys, MaxBulk)

\* The values of the objects setBulk is called with.
BulkValues == { Num(42), Str(<< "A", "a" >>), Str(<< "B", "B" >>) }

\* The keyValuePairs objects setBulk is called with, as Object.entries lists
\* them: <<key, value>> pairs with distinct keys.
BulkEntries ==
    { e \in SeqsUpTo(LocalKeys \X BulkValues, MaxBulk) :
        \A i, j \in 1..Len(e) : i # j => e[i][1] # e[j][1] }

\* The orders in which n pending zlib calls can complete.
CompletionOrders(n) == Permutations(1..n)

RECURSIVE FormatKeys(_, _, _)
\* _formatKey applied to each key of a list in turn: the formatted keys and
\* the key-format cache afterwards.
FormatKeys(cache, namespace, keys) ==
    IF Len(keys) = 0
    THEN [val |-> << >>, cache |-> cache]
    ELSE LET first == FormatKeyCached(cache, namespace, keys[1])
             rest == FormatKeys(first.cache, namespace, Tail(keys))
         IN  [val |-> << first.val >> \o rest.val, cache |-> rest.cache]

RECURSIVE StoreResults(_, _, _, _, _)
\* The continuations of the pending zlib calls of one bulk operation, run
\* in their completion order: each one that has a result manages the cache
\* size and stores its result under its fingerprint.
StoreResults(cache, order, fingerprints, results, pending) ==
    IF Len(order) = 0 THEN cache
    ELSE LET i == order[1]
         IN  StoreResults(
                 IF pending[i]
                 THEN CacheSet(ManageCacheSize(cache, performanceThresholds),
                               fingerprints[i], results[i])
                 ELSE cache,
                 Tail(order), fingerprints, results, pending)

\* How many indexes of a sequence of booleans are TRUE.
CountTrue(flags) == Cardinality({ i \in 1..Len(flags) : flags[i] })

\* The compression promises of setBulk: every _compress call looks its
\* fingerprint up before any deflate has finished, then the misses store
\* their results in completion order.
BulkCompress(cache, stats, texts, order) ==
    IF ~enableCompression
    THEN [val |-> texts, cache |-> cache, stats |-> stats]
    ELSE LET n == Len(texts)
             fps == [i \in 1..n |-> GetCacheKey(texts[i])]
             hit == [i \in 1..n |-> CacheHas(cache, fps[i])]
             miss == [i \in 1..n |-> ~hit[i]]
             deflated == [i \in 1..n |-> DeflateBase64(texts[i])]
         IN  [val |-> [i \in 1..n |-> IF hit[i] THEN CacheGet(cache, fps[i]) ELSE deflated[i]],
              cache |-> StoreResults(cache, order, fps, deflated, miss),
              stats |-> [stats EXCEPT !.cacheHits = @ + CountTrue(hit),
                                      !.cacheMisses = @ + CountTrue(miss)]]

\* if (value): a reply that is a non-empty string.
Truthy(reply) == IsString(reply) /\ Len(reply[2]) > 0

\* The decompression promises of getBulk over the pipeline's replies: a
\* falsy reply gives null; the others look their fingerprint up before any
\* inflate has finished, then the successful misses store their results in
\* completion order.  ok = FALSE when one of them throws (Promise.all rejects).
BulkDecompress(cache, stats, replies, order) ==
    LET n == Len(replies)
        used == [i \in 1..n |-> Truthy(replies[i])]
    IN  IF ~enableCompression
        THEN [ok |-> TRUE,
              val |-> [i \in 1..n |-> IF used[i] THEN Decode(replies[i]) ELSE Null],
              cache |-> cache, stats |-> stats]
        ELSE LET fps == [i \in 1..n |-> IF used[i] THEN CacheKeyOf(replies[i]) ELSE << >>]
                 hit == [i \in 1..n |-> used[i] /\ CacheHas(cache, fps[i])]
                 miss == [i \in 1..n |-> used[i] /\ ~hit[i]]
                 inflated == [i \in 1..n |-> InflateBase64(replies[i])]
                 stored == [i \in 1..n |-> miss[i] /\ inflated[i].ok]
                 text == [i \in 1..n |->
                            IF hit[i] THEN CacheGet(cache, fps[i]) ELSE inflated[i].val]
             IN  [ok |-> \A i \in 1..n : miss[i] => inflated[i].ok,
                  val |-> [i \in 1..n |-> IF used[i] THEN Decode(Str(text[i])) ELSE Null],
                  cache |-> StoreResults(cache, order, fps,
                                         [i \in 1..n |-> inflated[i].val], stored),
                  stats |-> [stats EXCEPT !.cacheHits = @ + CountTrue(hit),
                                          !.cacheMisses = @ + CountTrue(miss)]]

\* The reply of GET for an entry of the store: null for a missing key, the
\* text of a string, a WRONGTYPE error (err = TRUE) for anything else.
GetReply(entry) ==
    CASE entry[1] = "none" -> [err |-> FALSE, val |-> Null]
      [] entry[1] = "string" -> [err |-> FALSE, val |-> Str(entry[2])]
      [] OTHER -> [err |-> TRUE, val |-> Null]

\* Object.fromEntries over the pairs <<keys[i], vals[i]>>: a key listed
\* more than once keeps its last value.
FromEntries(keys, vals) ==
    Mapping([k \in { keys[i] : i \in 1..Len(keys) } |->
                vals[CHOOSE i \in 1..Len(keys) :
                        keys[i] = k /\ \A j \in 1..Len(keys) : keys[j] = k => j <= i]])

RECURSIVE PipelineSet(_, _, _)
\* The store after the SET commands of one pipeline, in order.
PipelineSet(content, keys, texts) ==
    IF Len(keys) = 0 THEN content
    ELSE PipelineSet([content EXCEPT ![keys[1]] = << "string", texts[1] >>],
                     Tail(keys), Tail(texts))

\* A pipeline that queues the expire commands after all the set commands.
BulkCommandsExpireLast(keys, texts, ttl) ==
    [j \in 1..Len(keys) |-> << "set", keys[j], texts[j] >>]
    \o (IF ttl # 0 THEN [j \in 1..Len(keys) |-> << "expire", keys[j], ttl >>] ELSE << >>)

RECURSIVE BulkCommands(_, _, _)
\* The commands the loop of setBulk queues on its pipeline, in order:
\* pipeline.set(redisKey, compressed) for every entry, followed by
\* pipeline.expire(redisKey, expirationInSeconds) if that is truthy.
BulkCommands(keys, texts, ttl) ==
    IF Len(keys) = 0 THEN << >>
    ELSE << << "set", keys[1], texts[1] >> >>
         \o (IF ttl # 0 THEN << << "expire", keys[1], ttl >> >> ELSE << >>)
         \o BulkCommands(Tail(keys), Tail(texts), ttl)

\* The counters have room for an operation on n keys: it adds n to
\* operationCount and, with compression enabled, makes up to n transform calls.
Budget(n) ==
    /\ performanceStats.operationCount + n <= MaxOperationCount
    /\ enableCompression => TransformCalls + n <= MaxTransformCalls

\* async setKey(namespace, key, value, expirationInSeconds)
SetKey(namespace, key, value, ttl) ==
    /\ Budget(1)
    /\ LET redisKey == FormatKeyCached(keyFormatCache, namespace, key)
           c == CompressCall(compressionCache, performanceStats, Serialize(value))
       IN  /\ keyFormatCache' = redisKey.cache
           /\ compressionCache' = c.cache
           /\ store' = [store EXCEPT ![redisKey.val] = << "string", c.val >>]
           /\ expires' = IF ttl # 0 THEN expires \cup { redisKey.val }
                         ELSE expires \ { redisKey.val }
           /\ performanceStats' = [c.stats EXCEPT !.operationCount = @ + 1]
    /\ lastWrite' = [op |-> "setKey", namespace |-> namespace,
                     entries |-> << << key, value >> >>, ttl |-> ttl]
    /\ ret' = [op |-> "setKey", arg |-> << namespace, key >>, ok |-> TRUE, val |-> Undefined]
    /\ UNCHANGED << enableCompression, performanceThresholds, decompressionCache, notifyVars, snapshot, batched, connection, inflight, subscription >>

\* async getKey(namespace, key)
GetKey(namespace, key) ==
    /\ Budget(1)
    /\ LET redisKey == FormatKeyCached(keyFormatCache, namespace, key)
           reply == GetReply(store[redisKey.val])
           d == DecompressCall(decompressionCache, performanceStats, reply.val)
       IN  /\ keyFormatCache' = redisKey.cache
           /\ IF reply.err
              THEN /\ ret' = [op |-> "getKey", arg |-> << namespace, key >>,
                              ok |-> TRUE, val |-> Null]
                   /\ UNCHANGED << decompressionCache, performanceStats >>
              ELSE IF ~Truthy(reply.val)
              THEN /\ ret' = [op |-> "getKey", arg |-> << namespace, key >>,
                              ok |-> TRUE, val |-> Null]
                   /\ performanceStats' = [performanceStats EXCEPT !.operationCount = @ + 1]
                   /\ UNCHANGED decompressionCache
              ELSE /\ ret' = [op |-> "getKey", arg |-> << namespace, key >>, ok |-> TRUE,
                              val |-> IF d.ok THEN Decode(d.val) ELSE Null]
                   /\ decompressionCache' = d.cache
                   /\ performanceStats' = [d.stats EXCEPT !.operationCount = @ + 1]
    /\ UNCHANGED << enableCompression, performanceThresholds, compressionCache,
                    store, expires, lastWrite, notifyVars, snapshot, batched, connection, inflight, subscription >>

\* async setBulk(namespace, keyValuePairs, expirationInSeconds)
SetBulk(namespace, entries, ttl, order) ==
    /\ Budget(Len(entries))
    /\ LET n == Len(entries)
           c == BulkCompress(compressionCache, performanceStats,
                             [i \in 1..n |-> Serialize(entries[i][2])], order)
           redisKeys == FormatKeys(keyFormatCache, namespace,
                                   [i \in 1..n |-> entries[i][1]])
           written == { redisKeys.val[i] : i \in 1..n }
       IN  /\ compressionCache' = c.cache
           /\ keyFormatCache' = redisKeys.cache
           /\ store' = PipelineSet(store, redisKeys.val, c.val)
           /\ expires' = IF ttl # 0 THEN expires \cup written ELSE expires \ written
           /\ performanceStats' = [c.stats EXCEPT !.operationCount = @ + n]
           /\ lastWrite' = [op |-> "setBulk", namespace |-> namespace, entries |-> entries,
                            ttl |-> ttl,
                            pipeline |-> BulkCommands(redisKeys.val, c.val, ttl)]
    /\ ret' = [op |-> "setBulk", arg |-> << namespace, entries >>, ok |-> TRUE,
               val |-> Undefined]
    /\ UNCHANGED << enableCompression, performanceThresholds, decompressionCache, notifyVars, snapshot, batched, connection, inflight, subscription >>

\* async getBulk(namespace, keys)
GetBulk(namespace, keys, order) ==
    /\ Budget(Len(keys))
    /\ LET n == Len(keys)
           redisKeys == FormatKeys(keyFormatCache, namespace, keys)
           replies == [i \in 1..n |-> GetReply(store[redisKeys.val[i]])]
           execThrows == \E i \in 1..n : replies[i].err
           d == BulkDecompress(decompressionCache, performanceStats,
                               [i \in 1..n |-> replies[i].val], order)
       IN  /\ keyFormatCache' = redisKeys.cache
           /\ IF execThrows
              THEN /\ ret' = [op |-> "getBulk", arg |-> << namespace, keys >>,
                              ok |-> FALSE, val |-> Undefined]
                   /\ UNCHANGED << decompressionCache, performanceStats >>
              ELSE /\ decompressionCache' = d.cache
                   /\ performanceStats' =
                        IF d.ok THEN [d.stats EXCEPT !.operationCount = @ + n] ELSE d.stats
                   /\ ret' = [op |-> "getBulk", arg |-> << namespace, keys >>, ok |-> d.ok,
                              val |-> IF d.ok THEN FromEntries(keys, d.val) ELSE Undefined]
    /\ UNCHANGED << enableCompression, performanceThresholds, compressionCache,
                    store, expires, lastWrite, notifyVars, snapshot, batched, connection, inflight, subscription >>

\* A text of decimal digits only.
IsDecimal(text) ==
    /\ Len(text) > 0
    /\ \A i \in 1..Len(text) :
          text[i] \in { "0", "1", "2", "3", "4", "5", "6", "7", "8", "9" }

\* async incrementCounter(namespace, key, increment = 1): INCRBY writes the
\* new count as plain decimal text and fails on a value that is no integer.
IncrementCounter(namespace, key) ==
    LET redisKey == FormatKeyCached(keyFormatCache, namespace, key)
        entry == store[redisKey.val]
        integer == entry[1] = "string" /\ IsDecimal(entry[2])
        fails == entry[1] # "none" /\ ~integer
        count == IF entry[1] = "none" THEN 0
                 ELSE CHOOSE c \in 0..MaxCounter : IntToString(c, 10) = entry[2]
    IN  /\ integer => \E c \in 0..(MaxCounter - 1) : IntToString(c, 10) = entry[2]
        /\ ret.op = "incrementCounter" => ret.ok
        /\ keyFormatCache' = redisKey.cache
        /\ IF fails
           THEN /\ ret' = [op |-> "incrementCounter", arg |-> << namespace, key >>,
                           ok |-> FALSE, val |-> Undefined]
                /\ UNCHANGED << store, lastWrite >>
           ELSE /\ store' = [store EXCEPT
                                ![redisKey.val] = << "string", IntToString(count + 1, 10) >>]
                /\ lastWrite' = [op |-> "incrementCounter", namespace |-> namespace,
                                 entries |-> << >>]
                /\ ret' = [op |-> "incrementCounter", arg |-> << namespace, key >>,
                           ok |-> TRUE, val |-> Num(count + 1)]
        /\ UNCHANGED << transformVars, expires, notifyVars, snapshot, batched, connection, inflight, subscription >>

InitStore ==
    \E compression \in BOOLEAN :
        Constructed(compression,
                    [hasCacheSize |-> TRUE, cacheSize |-> COMPRESSION_CACHE_MAX_SIZE],
                    EmptyStore)

NextStore ==
    \/ \E ns \in Namespaces, k \in LocalKeys, v \in AppValues, ttl \in TTLs :
          SetKey(ns, k, v, ttl)
    \/ \E ns \in Namespaces, k \in LocalKeys : GetKey(ns, k)
    \/ \E ns \in Namespaces, e \in BulkEntries, ttl \in TTLs :
          \E order \in CompletionOrders(Len(e)) : SetBulk(ns, e, ttl, order)
    \/ \E ns \in Namespaces, keys \in KeyLists :
          \E order \in CompletionOrders(Len(keys)) : GetBulk(ns, keys, order)
    \/ \E ns \in Namespaces, k \in LocalKeys : IncrementCounter(ns, k)

\* A client whose key and bulk operations are called one after another.
Spec == InitStore /\ [][NextStore]_vars

(***************************************************************************)
(* The namespace snapshot                                                  *)
(***************************************************************************)

\* The largest batchSize argument of getNamespaceSnapshot.
MaxBatchSize == 2

\* The most getNamespaceSnapshot calls of one client.
MaxSnapshotCalls == 1

\* The most writes of other clients during one getNamespaceSnapshot call.
MaxStoreWrites == 1

\* What the store can hold under a key: nothing, a string (the compressed
\* text of "Aa" or of "BB", or the plain text "1" that incrementCounter
\* writes), a hash, a list, a set, a sorted set as <<member, score>> pairs in
\* score order, or a stream.
StoreEntries ==
    { NoEntry,
      << "string", DeflateBase64(<< "A", "a" >>) >>,
      << "string", DeflateBase64(<< "B", "B" >>) >>,
      << "string", << "1" >> >>,
      << "hash", << << << "f" >>, << "v" >> >> >> >>,
      << "list", << << "x" >>, << "y" >> >> >>,
      << "set", << << "x" >>, << "y" >> >> >>,
      << "zset", << << << "p" >>, 85 >>, << << "q" >>, 100 >> >> >>,
      << "stream", << >> >> }

\* The types getNamespaceSnapshot has a case for.
SNAPSHOT_TYPES == { "string", "hash", "list", "set", "zset" }

\* A slice that holds every item from the position on.
BatchToEnd(keys, i, batchSize) == SubSeq(keys, i, Len(keys))

\* A slice that holds the item at the position alone.
BatchOfOne(keys, i, batchSize) == SubSeq(keys, i, i)

\* keys.slice(i, i + batchSize), for the 1-based position of its first key.
Batch(keys, i, batchSize) ==
    SubSeq(keys, i, IF i + batchSize - 1 < Len(keys) THEN i + batchSize - 1 ELSE Len(keys))

\* The type a value-pipeline command works on, by the case of the switch that
\* queues it: get for a string and for an unknown type, hGetAll, lRange,
\* sMembers, zRangeWithScores.
CommandType(keyType) == IF keyType \in SNAPSHOT_TYPES THEN keyType ELSE "string"

\* The texts of a sequence as an array of strings.
StringArray(texts) == Arr([j \in 1..Len(texts) |-> Str(texts[j])])

\* One element of a zRangeWithScores reply.
ScoredMember(member, score) ==
    Obj(<< << << "value" >>, Str(member) >>, << << "score" >>, Num(score) >> >>)

\* The store's reply to the value-pipeline command queued for keyType, for
\* what the key holds when the pipeline runs: the empty reply of the command
\* for a missing key, a WRONGTYPE error (err = TRUE) for a key of another
\* type; the members of a set come in the store's order or (reversed) in
\* the opposite one.
ValueReply(keyType, entry, reversed) ==
    LET command == CommandType(keyType)
        content == entry[2]
    IN  IF entry[1] = "none"
        THEN [err |-> FALSE,
              val |-> CASE command = "string" -> Null
                        [] command = "hash" -> Obj(<< >>)
                        [] OTHER -> Arr(<< >>)]
        ELSE IF entry[1] # command
        THEN [err |-> TRUE, val |-> Null]
        ELSE [err |-> FALSE,
              val |-> CASE command = "string" -> Str(content)
                        [] command = "hash" ->
                             Obj([j \in 1..Len(content) |->
                                    << content[j][1], Str(content[j][2]) >>])
                        [] command = "list" -> StringArray(content)
                        [] command = "set" ->
                             StringArray(IF reversed
                                         THEN [j \in 1..Len(content) |->
                                                 content[Len(content) + 1 - j]]
                                         ELSE content)
                        [] OTHER ->
                             Arr([j \in 1..Len(content) |->
                                    ScoredMember(content[j][1], content[j][2])])]

RECURSIVE NormalizeObject(_)
\* _normalizeObject(obj): arrays and objects rebuilt element by element,
\* everything else returned as it is.
NormalizeObject(obj) ==
    CASE obj[1] = "array" -> Arr([j \in 1..Len(obj[2]) |-> NormalizeObject(obj[2][j])])
      [] obj[1] = "object" ->
           Obj([j \in 1..Len(obj[2]) |-> << obj[2][j][1], NormalizeObject(obj[2][j][2]) >>])
      [] OTHER -> obj

\* zsetObj[item.value] = item.score for every item of a zRangeWithScores reply.
ZsetObject(value) ==
    IF value[1] = "array"
    THEN Obj([j \in 1..Len(value[2]) |-> << value[2][j][2][1][2][2], value[2][j][2][2][2] >>])
    ELSE Obj(<< >>)

\* The switch of the processing loop for one fetched value: what goes into
\* the result, and the decompression cache and the counters afterwards.
ProcessValue(keyType, value, cache, stats) ==
    LET d == DecompressCall(cache, stats, value)
    IN  CASE keyType = "string" ->
               [val |-> NormalizeObject(IF d.ok THEN Decode(d.val) ELSE value),
                cache |-> d.cache, stats |-> d.stats]
          [] keyType = "zset" ->
               [val |-> NormalizeObject(ZsetObject(value)), cache |-> cache, stats |-> stats]
          [] OTHER ->
               [val |-> NormalizeObject(value), cache |-> cache, stats |-> stats]

\* result[cleanKey] = value on a plain object, kept as <<key, value>>
\* properties in insertion order.
SetProperty(object, key, value) ==
    IF \E j \in 1..Len(object) : object[j][1] = key
    THEN [j \in 1..Len(object) |-> IF object[j][1] = key THEN << key, value >> ELSE object[j]]
    ELSE Append(object, << key, value >>)

RECURSIVE ProcessBatchKeepNone(_, _, _, _, _, _, _)
\* A processing loop that gives a key whose type was "none" a null property.
ProcessBatchKeepNone(namespace, batch, typeResults, valueResults, j, resultIndex, acc) ==
    IF j > Len(batch) THEN acc
    ELSE LET cleanKey == ReplaceFirst(batch[j], namespace \o << ":" >>)
         IN  IF typeResults[j] = "none"
             THEN ProcessBatchKeepNone(namespace, batch, typeResults, valueResults, j + 1,
                                       resultIndex,
                                       [acc EXCEPT !.result = SetProperty(@, cleanKey, Null)])
             ELSE LET p == ProcessValue(typeResults[j], valueResults[resultIndex],
                                        acc.cache, acc.stats)
                  IN  ProcessBatchKeepNone(namespace, batch, typeResults, valueResults,
                                           j + 1, resultIndex + 1,
                                           [result |-> SetProperty(acc.result, cleanKey, p.val),
                                            cache |-> p.cache, stats |-> p.stats])

RECURSIVE ProcessBatch(_, _, _, _, _, _, _)
\* The processing loop over a batch from its j-th key on: the keys whose
\* type was "none" are skipped, the others take the fetched values in order.
ProcessBatch(namespace, batch, typeResults, valueResults, j, resultIndex, acc) ==
    IF j > Len(batch) THEN acc
    ELSE IF typeResults[j] = "none"
    THEN ProcessBatch(namespace, batch, typeResults, valueResults, j + 1, resultIndex, acc)
    ELSE LET cleanKey == ReplaceFirst(batch[j], namespace \o << ":" >>)
             p == ProcessValue(typeResults[j], valueResults[resultIndex],
                               acc.cache, acc.stats)
         IN  ProcessBatch(namespace, batch, typeResults, valueResults, j + 1,
                          resultIndex + 1,
                          [result |-> SetProperty(acc.result, cleanKey, p.val),
                           cache |-> p.cache, stats |-> p.stats])

\* The keys of a batch that get a command in the value pipeline.
Fetched(typeResults) == SelectSeq([j \in 1..Len(typeResults) |-> j],
                                  LAMBDA j : typeResults[j] # "none")

\* The keys of the store that match `${namespace}:*`.
Matching(namespace) ==
    { k \in RedisKeys : store[k][1] # "none"
                        /\ Take(k, Len(namespace) + 1) = namespace \o << ":" >> }

\* The orders in which KEYS can list a set of keys.
Listings(keys) ==
    { l \in SeqsUpTo(keys, Cardinality(keys)) :
        Len(l) = Cardinality(keys) /\ { l[j] : j \in 1..Len(l) } = keys }

\* A round trip of the call to the store: the KEYS command or a pipeline
\* with one command per key, noted when it is submitted; answered is set
\* when the await on it returns.
Trip(kind, keys) == [kind |-> kind, keys |-> keys, answered |-> FALSE]

\* The round trips of the call once the one in flight has been answered.
Answered(trips) == [trips EXCEPT ![Len(trips)].answered = TRUE]

\* The call continues after its namespace has been listed unless
\* keys.length === 0.
AfterKeysAlways(keys) == "type"

AfterKeys(keys) == IF Len(keys) = 0 THEN "done" ELSE "type"

snapshotUnchanged ==
    << enableCompression, performanceThresholds, compressionCache, keyFormatCache,
       expires, lastWrite, notifyVars, batched, connection, inflight, subscription >>

\* Another client of the store writes or deletes a key while the call is
\* between two of its round trips.
StoreWrite(key, entry) ==
    /\ snapshot.pc \in { "type", "value" }
    /\ snapshot.writes < MaxStoreWrites
    /\ store[key] # entry
    /\ store' = [store EXCEPT ![key] = entry]
    /\ snapshot' = [snapshot EXCEPT !.writes = @ + 1]
    /\ UNCHANGED << snapshotUnchanged, decompressionCache, performanceStats, ret >>

\* getNamespaceSnapshot(namespace, batchSize) up to the answer to KEYS: no
\* key gives {} at once, otherwise the first batch's types are asked for.
SnapshotKeys(namespace, batchSize, keys) ==
    /\ snapshot.pc \in { "idle", "done" }
    /\ snapshot.calls < MaxSnapshotCalls
    /\ enableCompression => TransformCalls + Len(keys) <= MaxTransformCalls
    /\ snapshot' = [pc |-> AfterKeys(keys),
                    namespace |-> namespace, batchSize |-> batchSize, keys |-> keys,
                    i |-> 1, typeResults |-> << >>, result |-> << >>,
                    writes |-> 0, unknown |-> FALSE,
                    trips |-> IF AfterKeys(keys) = "done"
                              THEN Answered(<< Trip("keys", << >>) >>)
                              ELSE Append(Answered(<< Trip("keys", << >>) >>),
                                          Trip("type", Batch(keys, 1, batchSize))),
                    calls |-> snapshot.calls + 1]
    /\ ret' = IF AfterKeys(keys) = "done"
              THEN [op |-> "getNamespaceSnapshot", arg |-> << namespace, batchSize >>,
                    ok |-> TRUE, val |-> Obj(<< >>)]
              ELSE ret
    /\ UNCHANGED << snapshotUnchanged, store, decompressionCache, performanceStats >>

\* The type pipeline of the current batch is answered.
SnapshotTypes ==
    /\ snapshot.pc = "type"
    /\ LET batch == Batch(snapshot.keys, snapshot.i, snapshot.batchSize)
           typeResults == [j \in 1..Len(batch) |-> store[batch[j]][1]]
       IN  snapshot' = [snapshot EXCEPT
                          !.pc = "value",
                          !.typeResults = typeResults,
                          !.trips = Append(Answered(@),
                                           Trip("value",
                                                [r \in 1..Len(Fetched(typeResults)) |->
                                                   batch[Fetched(typeResults)[r]]])),
                          !.unknown = @ \/ \E j \in 1..Len(batch) :
                                             typeResults[j] \notin SNAPSHOT_TYPES \cup { "none" }]
    /\ UNCHANGED << snapshotUnchanged, store, decompressionCache, performanceStats, ret >>

\* The value pipeline of the current batch is answered: exec throws when a
\* reply is an error, which ends the call; otherwise the batch is processed
\* and the call goes on to the next batch or returns the result.
SnapshotValues(reversed) ==
    /\ snapshot.pc = "value"
    /\ LET batch == Batch(snapshot.keys, snapshot.i, snapshot.batchSize)
           fetched == Fetched(snapshot.typeResults)
           replies == [r \in 1..Len(fetched) |->
                         ValueReply(snapshot.typeResults[fetched[r]],
                                    store[batch[fetched[r]]], reversed)]
           execThrows == \E r \in 1..Len(fetched) : replies[r].err
           p == ProcessBatch(snapshot.namespace, batch, snapshot.typeResults,
                             [r \in 1..Len(fetched) |-> replies[r].val], 1, 1,
                             [result |-> snapshot.result, cache |-> decompressionCache,
                              stats |-> performanceStats])
           next == snapshot.i + snapshot.batchSize
           call == << snapshot.namespace, snapshot.batchSize >>
       IN  IF execThrows
           THEN /\ snapshot' = [snapshot EXCEPT !.pc = "done", !.trips = Answered(@)]
                /\ ret' = [op |-> "getNamespaceSnapshot", arg |-> call, ok |-> FALSE,
                           val |-> Undefined]
                /\ UNCHANGED << decompressionCache, performanceStats >>
           ELSE /\ decompressionCache' = p.cache
                /\ performanceStats' = p.stats
                /\ snapshot' = [snapshot EXCEPT
                                  !.pc = IF next > Len(snapshot.keys) THEN "done" ELSE "type",
                                  !.i = next, !.result = p.result,
                                  !.trips =
                                     IF next > Len(snapshot.keys) THEN Answered(@)
                                     ELSE Append(Answered(@),
                                                 Trip("type", Batch(snapshot.keys, next,
                                                                    snapshot.batchSize)))]
                /\ ret' = IF next > Len(snapshot.keys)
                          THEN [op |-> "getNamespaceSnapshot", arg |-> call, ok |-> TRUE,
                                val |-> Obj(p.result)]
                          ELSE ret
    /\ UNCHANGED << snapshotUnchanged, store >>

InitSnapshot ==
    \E compression \in BOOLEAN, content \in [RedisKeys -> StoreEntries] :
        Constructed(compression,
                    [hasCacheSize |-> TRUE, cacheSize |-> COMPRESSION_CACHE_MAX_SIZE],
                    content)

NextSnapshot ==
    \/ \E key \in RedisKeys, entry \in StoreEntries : StoreWrite(key, entry)
    \/ \E namespace \in Namespaces, batchSize \in 1..MaxBatchSize :
          \E keys \in Listings(Matching(namespace)) :
             SnapshotKeys(namespace, batchSize, keys)
    \/ SnapshotTypes
    \/ \E reversed \in BOOLEAN : SnapshotValues(reversed)

\* A client whose getNamespaceSnapshot runs while other clients write the
\* store.
SpecSnapshot == InitSnapshot /\ [][NextSnapshot]_vars

(***************************************************************************)
(* Batched bulk operations                                                 *)
(***************************************************************************)

\* The most items of one getBulkBatched call.
MaxBatchedItems == 3

\* The most setBulkBatched and getBulkBatched calls of one client.
MaxBatchedCalls == 1

\* The key lists getBulkBatched is called with.
BatchedKeyLists == SeqsUpTo(LocalKeys, MaxBatchedItems)

\* What the store holds under a key when the batched calls start.
BatchedEntries ==
    { NoEntry,
      << "string", DeflateBase64(<< "A", "a" >>) >>,
      << "hash", << << << "f" >>, << "v" >> >> >> >> }

\* `Batch ${Math.floor(i / batchSize) + 1} completed`
BatchCompleted(k) == Str(<< "Batch " >> \o NatToString(k, 10) \o << " completed" >>)

\* The same text for a batchSize of 0: i / batchSize is 0 / 0, which is NaN.
BatchNaNCompleted == Str(<< "Batch ", "N", "a", "N", " completed" >>)

\* Object.assign(results, batchResults) on two plain objects.
ObjectAssign(results, batchResults) ==
    [k \in DOMAIN results \cup DOMAIN batchResults |->
        IF k \in DOMAIN batchResults THEN batchResults[k] ELSE results[k]]

\* The batched call after it has submitted the slice that starts at its
\* position i to the bulk operation.
Submitted(call) ==
    [call EXCEPT !.pc = "await",
                 !.submitted = Append(@, Batch(call.items, call.i, call.batchSize))]

\* setBulkBatched or getBulkBatched from its start to its first await: with
\* no item the loop is not entered and the call returns its empty results.
BatchedCall(op, namespace, items, batchSize, ttl) ==
    /\ batched.pc \in { "idle", "done" }
    /\ batched.calls < MaxBatchedCalls
    /\ LET call == [pc |-> "loop", op |-> op, namespace |-> namespace, items |-> items,
                    batchSize |-> batchSize, ttl |-> ttl, i |-> 1, submitted |-> << >>,
                    completed |-> 0,
                    results |-> << >>,
                    calls |-> batched.calls + 1]
       IN  IF Len(items) = 0
           THEN /\ batched' = [call EXCEPT !.pc = "done"]
                /\ ret' = [op |-> op, arg |-> << namespace, items, batchSize >>, ok |-> TRUE,
                           val |-> IF op = "getBulkBatched" THEN Mapping(<< >>) ELSE Arr(<< >>)]
           ELSE /\ batched' = Submitted(call)
                /\ UNCHANGED ret
    /\ UNCHANGED << transformVars, storeVars, notifyVars, snapshot, connection, inflight, subscription >>

\* The slice the bulk operation in flight was called with.
InFlight ==
    IF batched.pc = "await" THEN batched.submitted[Len(batched.submitted)] ELSE << >>

\* The batched call after the bulk operation on its current slice has
\* completed with the given results: it submits the next slice or is done.
Continued(results) ==
    LET next == batched.i + batched.batchSize
        call == [batched EXCEPT !.completed = @ + 1, !.i = next, !.results = results]
    IN  IF next > Len(batched.items) THEN [call EXCEPT !.pc = "done"] ELSE Submitted(call)

\* The setBulk that setBulkBatched awaits completes: the slice is written,
\* its batch is noted in the results, and the loop goes on.
SetBulkCompletes(order) ==
    /\ batched.pc = "await"
    /\ batched.op = "setBulkBatched"
    /\ LET entries == InFlight
           n == Len(entries)
           c == BulkCompress(compressionCache, performanceStats,
                             [j \in 1..n |-> Serialize(entries[j][2])], order)
           redisKeys == FormatKeys(keyFormatCache, batched.namespace,
                                   [j \in 1..n |-> entries[j][1]])
           written == { redisKeys.val[j] : j \in 1..n }
           results == Append(batched.results,
                             IF batched.batchSize = 0 THEN BatchNaNCompleted
                             ELSE BatchCompleted(Len(batched.submitted)))
           call == Continued(results)
       IN  /\ compressionCache' = c.cache
           /\ keyFormatCache' = redisKeys.cache
           /\ store' = PipelineSet(store, redisKeys.val, c.val)
           /\ expires' = IF batched.ttl # 0 THEN expires \cup written ELSE expires \ written
           /\ performanceStats' = [c.stats EXCEPT !.operationCount = @ + n]
           /\ lastWrite' = [op |-> "setBulk", namespace |-> batched.namespace,
                            entries |-> entries, ttl |-> batched.ttl,
                            pipeline |-> BulkCommands(redisKeys.val, c.val, batched.ttl)]
           /\ batched' = call
           /\ ret' = IF call.pc = "done"
                     THEN [op |-> "setBulkBatched",
                           arg |-> << batched.namespace, batched.items, batched.batchSize >>,
                           ok |-> TRUE, val |-> Arr(results)]
                     ELSE ret
    /\ UNCHANGED << enableCompression, performanceThresholds, decompressionCache,
                    notifyVars, snapshot, connection, inflight, subscription >>

\* The getBulk that getBulkBatched awaits completes: its mapping is merged
\* into the results and the loop goes on, or it throws and so does the
\* batched call.
GetBulkCompletes(order) ==
    /\ batched.pc = "await"
    /\ batched.op = "getBulkBatched"
    /\ LET keys == InFlight
           n == Len(keys)
           redisKeys == FormatKeys(keyFormatCache, batched.namespace, keys)
           replies == [j \in 1..n |-> GetReply(store[redisKeys.val[j]])]
           execThrows == \E j \in 1..n : replies[j].err
           d == BulkDecompress(decompressionCache, performanceStats,
                               [j \in 1..n |-> replies[j].val], order)
           thrown == [batched EXCEPT !.pc = "done", !.completed = @ + 1]
           results == ObjectAssign(batched.results, FromEntries(keys, d.val)[2])
           call == Continued(results)
           arg == << batched.namespace, batched.items, batched.batchSize >>
       IN  /\ keyFormatCache' = redisKeys.cache
           /\ IF execThrows
              THEN /\ batched' = thrown
                   /\ ret' = [op |-> "getBulkBatched", arg |-> arg, ok |-> FALSE,
                              val |-> Undefined]
                   /\ UNCHANGED << decompressionCache, performanceStats >>
              ELSE /\ decompressionCache' = d.cache
                   /\ performanceStats' =
                        IF d.ok THEN [d.stats EXCEPT !.operationCount = @ + n] ELSE d.stats
                   /\ batched' = IF d.ok THEN call ELSE thrown
                   /\ ret' = IF ~d.ok
                             THEN [op |-> "getBulkBatched", arg |-> arg, ok |-> FALSE,
                                   val |-> Undefined]
                             ELSE IF call.pc = "done"
                             THEN [op |-> "getBulkBatched", arg |-> arg, ok |-> TRUE,
                                   val |-> Mapping(results)]
                             ELSE ret
    /\ UNCHANGED << enableCompression, performanceThresholds, compressionCache,
                    store, expires, lastWrite, notifyVars, snapshot, connection, inflight, subscription >>

InitBatched ==
    \E compression \in BOOLEAN, content \in [RedisKeys -> BatchedEntries] :
        Constructed(compression,
                    [hasCacheSize |-> TRUE, cacheSize |-> COMPRESSION_CACHE_MAX_SIZE],
                    content)

NextBatched ==
    \/ \E ns \in Namespaces, e \in BulkEntries, b \in 1..MaxBatchSize, ttl \in TTLs :
          BatchedCall("setBulkBatched", ns, e, b, ttl)
    \/ \E ns \in Namespaces, keys \in BatchedKeyLists, b \in 1..MaxBatchSize :
          BatchedCall("getBulkBatched", ns, keys, b, 0)
    \/ \E order \in CompletionOrders(Len(InFlight)) : SetBulkCompletes(order)
    \/ \E order \in CompletionOrders(Len(InFlight)) : GetBulkCompletes(order)

\* A client whose setBulkBatched and getBulkBatched are called on a store
\* that holds strings and hashes.
SpecBatched == InitBatched /\ [][NextBatched]_vars

(***************************************************************************)
(* Keyspace notifications                                                  *)
(***************************************************************************)

\* The namespaces arguments of subscribeToKeyspaceEvents, as arrays: one
\* namespace, both, or one namespace twice.
SubscriptionLists ==
    { << << "n" >> >>, << << "m" >> >>, << << "n" >>, << "m" >> >>, << << "n" >>, << "n" >> >> }

\* The local keys whose changes the store notifies.
NotifiedKeys == { << "a" >> }

\* The kinds of change the store notifies.
EventKinds == { "set" }

\* The members of the registry, a Set kept in insertion order.
Members(registry) == { registry[j] : j \in 1..Len(registry) }

\* Set.add: a new member goes to the end of the insertion order.
RegistryAdd(registry, namespace) ==
    IF namespace \in Members(registry) THEN registry ELSE Append(registry, namespace)

\* A delete that removes nothing.
RegistryKeep(registry, namespace) == registry

\* Set.delete
RegistryDelete(registry, namespace) ==
    SelectSeq(registry, LAMBDA member : member # namespace)

\* Where a member stands in the insertion order.
IndexOf(registry, namespace) ==
    CHOOSE j \in 1..Len(registry) : registry[j] = namespace

\* `__keyspace@0__:${namespace}:`
KeyspacePrefix(namespace) == << "__keyspace@0__:" >> \o namespace \o << ":" >>

\* The channel the store publishes a change of namespace:key on.
Channel(namespace, key) == KeyspacePrefix(namespace) \o key

\* The listener subscribeToKeyspaceEvents registers for a namespace: the
\* 'keyspace' event it emits for a message on a channel.
KeyspaceEvent(namespace, message, channel) ==
    [namespace |-> namespace,
     key |-> ReplaceFirst(channel, KeyspacePrefix(namespace)),
     event |-> message]

\* A call in flight at the given await.
Task(pc, namespaces, next, before, clean) ==
    [pc |-> pc, namespaces |-> namespaces, i |-> 1, next |-> next,
     before |-> before, clean |-> clean]

\* subscribeToKeyspaceEvents from the end of its configuration block to its
\* next await: it creates the notification client when there is none and
\* waits for a connect that is still under way, then goes on to pSubscribe.
AfterConfig(client, namespaces, next, before, clean) ==
    [task |-> Task(IF client \in { "null", "connecting" } THEN "connect" ELSE "psub",
                   namespaces, next, before, clean),
     client |-> IF client = "null" THEN "connecting" ELSE client,
     finished |-> FALSE]

\* subscribeToKeyspaceEvents from its start to its first await.
StartCall(configured, client, namespaces, next, before, clean) ==
    IF ~configured
    THEN [task |-> Task("config", namespaces, next, before, clean),
          client |-> client, finished |-> FALSE]
    ELSE AfterConfig(client, namespaces, next, before, clean)

\* A loop over the registry that visits no namespace at all.
HandlerTargetNone(registry, next) == << >>

\* for (const namespace of this.subscribedNamespaces): the namespace the
\* iteration visits at a position of the insertion order, none at its end.
HandlerTarget(registry, next) ==
    IF next <= Len(registry) THEN << registry[next] >> ELSE << >>

\* The 'ready' handler from one iteration of its loop to its next await:
\* it calls subscribeToKeyspaceEvents for the namespace it visits, or is
\* finished.
HandlerContinue(configured, client, registry, next, before, clean) ==
    LET target == HandlerTarget(registry, next)
    IN  IF Len(target) = 0
        THEN [task |-> Idle, client |-> client, finished |-> TRUE]
        ELSE StartCall(configured, client, target, next + 1, before, clean)

\* The calls in flight after a call has changed the registry: the running
\* handlers other than that call have seen the registry changed from outside.
Touched(ts, by, changed) ==
    [t \in Tasks |->
        IF changed /\ t # by /\ t \in HandlerTasks /\ ts[t].pc # "idle"
        THEN [ts[t] EXCEPT !.clean = FALSE]
        ELSE ts[t]]

\* What a finished call gave back.
Returned(op, arg, ok) == [op |-> op, arg |-> arg, ok |-> ok, val |-> Undefined]

\* The queue of subClient after a call has reached the given await: a call
\* that got to its pSubscribe or pUnsubscribe has sent the command.
Sent(queue, t, task) ==
    IF task.pc \in { "psub", "punsub" } THEN Append(queue, t) ELSE queue

\* The count of CONFIG SET commands after a call has reached the given
\* await: a call that got to its configuration block has sent one.  The
\* count stops at MaxConfigSets.
Issued(count, task) ==
    IF task.pc = "config" /\ count < MaxConfigSets THEN count + 1 ELSE count

RECURSIVE SentAll(_, _)
\* The queue after each call of a set has sent its command.
SentAll(queue, ts) ==
    IF ts = { } THEN queue
    ELSE LET t == CHOOSE u \in ts : TRUE
         IN  SentAll(Append(queue, t), ts \ { t })

\* The call whose command subClient answers next.
IsNext(t) == Len(subQueue) > 0 /\ Head(subQueue) = t

dataVars == << transformVars, storeVars, snapshot, batched, connection, inflight, subscription >>

\* The application calls subscribeToKeyspaceEvents(namespaces).
Subscribe(t, namespaces) ==
    /\ tasks[t].pc = "idle"
    /\ subscribeCalls < MaxSubscribeCalls
    /\ LET s == StartCall(keyspaceEventsConfigured, subClient, namespaces, 0, { }, TRUE)
       IN  /\ tasks' = [tasks EXCEPT ![t] = s.task]
           /\ subClient' = s.client
           /\ subQueue' = Sent(subQueue, t, s.task)
           /\ configSets' = Issued(configSets, s.task)
    /\ subscribeCalls' = subscribeCalls + 1
    /\ lastDelivery' = NoDelivery
    /\ handled' = NoRun
    /\ UNCHANGED << dataVars, ret, keyspaceEventsConfigured, subscribedNamespaces,
                    listeners, disconnects, unissued >>

\* A CONFIG SET round trip whose failure ends the call with the error.
ConfigSetFatal(t, ok) ==
    /\ tasks[t].pc = "config"
    /\ keyspaceEventsConfigured' = (keyspaceEventsConfigured \/ ok)
    /\ LET s == AfterConfig(subClient, tasks[t].namespaces, tasks[t].next,
                            tasks[t].before, tasks[t].clean)
       IN  /\ tasks' = [tasks EXCEPT ![t] = IF ok THEN s.task ELSE Idle]
           /\ subClient' = IF ok THEN s.client ELSE subClient
           /\ subQueue' = IF ok THEN Sent(subQueue, t, s.task) ELSE subQueue
    /\ ret' = IF ok \/ t \notin AppTasks THEN ret
              ELSE Returned("subscribeToKeyspaceEvents", tasks[t].namespaces, FALSE)
    /\ lastDelivery' = NoDelivery
    /\ handled' = NoRun
    /\ UNCHANGED << dataVars, subscribedNamespaces, listeners, disconnects,
                    subscribeCalls, unissued, configSets >>

\* The CONFIG SET round trip of a call ends: on success the flag is set, a
\* failure is logged and the call goes on.
ConfigSet(t, ok) ==
    /\ tasks[t].pc = "config"
    /\ keyspaceEventsConfigured' = (keyspaceEventsConfigured \/ ok)
    /\ LET s == AfterConfig(subClient, tasks[t].namespaces, tasks[t].next,
                            tasks[t].before, tasks[t].clean)
       IN  /\ tasks' = [tasks EXCEPT ![t] = s.task]
           /\ subClient' = s.client
           /\ subQueue' = Sent(subQueue, t, s.task)
    /\ lastDelivery' = NoDelivery
    /\ handled' = NoRun
    /\ UNCHANGED << dataVars, ret, subscribedNamespaces, listeners, disconnects,
                    subscribeCalls, unissued,
                    configSets >>

\* The calls that wait for the connect of the notification client.
Connecting == { t \in Tasks : tasks[t].pc = "connect" }

\* The notification client becomes ready: its 'ready' handler starts as run
\* h, then the calls that waited for the connect go on to their pSubscribe.
Ready(h) ==
    LET before == Members(subscribedNamespaces)
        run == HandlerContinue(keyspaceEventsConfigured, "ready", subscribedNamespaces,
                               1, before, TRUE)
    IN  /\ subClient' = "ready"
        /\ tasks' = [t \in Tasks |->
                        IF t = h THEN run.task
                        ELSE IF t \in Connecting THEN [tasks[t] EXCEPT !.pc = "psub"]
                        ELSE tasks[t]]
        /\ subQueue' = SentAll(Sent(subQueue, h, run.task), Connecting)
        /\ configSets' = Issued(configSets, run.task)
        /\ unissued' = unissued \cup before
        /\ handled' = IF run.finished
                      THEN [done |-> TRUE, clean |-> TRUE, before |-> before, after |-> before]
                      ELSE NoRun
        /\ lastDelivery' = NoDelivery
        /\ UNCHANGED << dataVars, ret, keyspaceEventsConfigured, subscribedNamespaces,
                        listeners, disconnects, subscribeCalls >>

\* this.subClient.connect() succeeds.
Connected ==
    /\ subClient = "connecting"
    /\ Ready(<< "ready", 0 >>)

\* this.subClient.connect() fails: the error is logged, the promise resolves
\* and the client stays closed; the calls that waited go on to a pSubscribe
\* that can only fail.
ConnectFails ==
    /\ subClient = "connecting"
    /\ subClient' = "closed"
    /\ tasks' = [t \in Tasks |->
                    IF t \in Connecting THEN [tasks[t] EXCEPT !.pc = "psub"]
                    ELSE tasks[t]]
    /\ subQueue' = SentAll(subQueue, Connecting)
    /\ lastDelivery' = NoDelivery
    /\ handled' = NoRun
    /\ UNCHANGED << dataVars, ret, keyspaceEventsConfigured, subscribedNamespaces,
                    listeners, disconnects, subscribeCalls, unissued,
                    configSets >>

\* The notification connection is lost; the client starts to reconnect.
Disconnect ==
    /\ subClient = "ready"
    /\ disconnects < MaxDisconnects
    /\ subClient' = "reconnecting"
    /\ disconnects' = disconnects + 1
    /\ lastDelivery' = NoDelivery
    /\ handled' = NoRun
    /\ UNCHANGED << dataVars, ret, keyspaceEventsConfigured, subscribedNamespaces,
                    listeners, tasks, subQueue, subscribeCalls, unissued,
                    configSets >>

\* The notification connection is back: 'ready' fires again.
Reconnected ==
    /\ subClient = "reconnecting"
    /\ Ready(<< "ready", disconnects >>)

\* The pSubscribe of a call is answered: the listener is registered, the
\* namespace is in the registry, and the call goes on to its next namespace
\* or returns; a returning call of the 'ready' handler lets the handler's
\* loop go on.
PSubscribe(t) ==
    /\ tasks[t].pc = "psub"
    /\ IsNext(t)
    /\ subClient = "ready"
    /\ LET me == tasks[t]
           namespace == me.namespaces[me.i]
           registry == RegistryAdd(subscribedNamespaces, namespace)
           byApp == t \in AppTasks
           others == Touched(tasks, t, registry # subscribedNamespaces)
           run == HandlerContinue(keyspaceEventsConfigured, subClient, registry,
                                  me.next, me.before, me.clean)
           task == IF me.i < Len(me.namespaces) THEN [me EXCEPT !.i = @ + 1]
                   ELSE IF byApp THEN Idle
                   ELSE run.task
       IN  /\ listeners' = [listeners EXCEPT ![namespace] = @ + 1]
           /\ subscribedNamespaces' = registry
           /\ unissued' = IF byApp THEN unissued ELSE unissued \ { namespace }
           /\ tasks' = [others EXCEPT ![t] = task]
           /\ subQueue' = Sent(Tail(subQueue), t, task)
           /\ configSets' = Issued(configSets, task)
           /\ ret' = IF byApp /\ task = Idle
                     THEN Returned("subscribeToKeyspaceEvents", me.namespaces, TRUE)
                     ELSE ret
           /\ handled' = IF ~byApp /\ task = Idle
                         THEN [done |-> TRUE, clean |-> me.clean,
                               before |-> me.before, after |-> Members(registry)]
                         ELSE NoRun
    /\ lastDelivery' = NoDelivery
    /\ UNCHANGED << dataVars, keyspaceEventsConfigured, subClient, disconnects,
                    subscribeCalls >>

\* A failed pSubscribe that puts its namespace into the registry all the same.
PSubscribeFailsAdds(t) ==
    /\ tasks[t].pc = "psub"
    /\ IsNext(t)
    /\ subClient \in { "reconnecting", "closed" }
    /\ subscribedNamespaces'
         = RegistryAdd(subscribedNamespaces, tasks[t].namespaces[tasks[t].i])
    /\ tasks' = [tasks EXCEPT ![t] = Idle]
    /\ subQueue' = Tail(subQueue)
    /\ ret' = IF t \in AppTasks
              THEN Returned("subscribeToKeyspaceEvents", tasks[t].namespaces, FALSE)
              ELSE ret
    /\ lastDelivery' = NoDelivery
    /\ handled' = NoRun
    /\ UNCHANGED << dataVars, keyspaceEventsConfigured, subClient,
                    listeners, disconnects, subscribeCalls, unissued,
                    configSets >>

\* The pSubscribe of a call fails, the connection being down: the call logs
\* and rethrows, which ends a run of the 'ready' handler.
PSubscribeFails(t) ==
    /\ tasks[t].pc = "psub"
    /\ IsNext(t)
    /\ subClient \in { "reconnecting", "closed" }
    /\ tasks' = [tasks EXCEPT ![t] = Idle]
    /\ subQueue' = Tail(subQueue)
    /\ ret' = IF t \in AppTasks
              THEN Returned("subscribeToKeyspaceEvents", tasks[t].namespaces, FALSE)
              ELSE ret
    /\ lastDelivery' = NoDelivery
    /\ handled' = NoRun
    /\ UNCHANGED << dataVars, keyspaceEventsConfigured, subClient, subscribedNamespaces,
                    listeners, disconnects, subscribeCalls, unissued,
                    configSets >>

\* The application calls unsubscribeFromNamespace(namespace).
Unsubscribe(t, namespace) ==
    /\ tasks[t].pc = "idle"
    /\ IF namespace \in Members(subscribedNamespaces)
       THEN /\ tasks' = [tasks EXCEPT ![t] = Task("punsub", << namespace >>, 0, { }, TRUE)]
            /\ subQueue' = Append(subQueue, t)
            /\ UNCHANGED ret
       ELSE /\ ret' = Returned("unsubscribeFromNamespace", << namespace >>, TRUE)
            /\ UNCHANGED << tasks, subQueue >>
    /\ lastDelivery' = NoDelivery
    /\ handled' = NoRun
    /\ UNCHANGED << dataVars, keyspaceEventsConfigured, subClient, subscribedNamespaces,
                    listeners, disconnects, subscribeCalls, unissued,
                    configSets >>

\* The pUnsubscribe of a call is answered: the pattern's listeners are gone
\* and the namespace leaves the registry; an iteration over the registry
\* that is past the deleted member stays on its next member.
PUnsubscribe(t) ==
    /\ tasks[t].pc = "punsub"
    /\ IsNext(t)
    /\ subClient = "ready"
    /\ LET namespace == tasks[t].namespaces[1]
           member == namespace \in Members(subscribedNamespaces)
           at == IF member THEN IndexOf(subscribedNamespaces, namespace) ELSE 0
           others == Touched(tasks, t, member)
       IN  /\ listeners' = [listeners EXCEPT ![namespace] = 0]
           /\ subscribedNamespaces' = RegistryDelete(subscribedNamespaces, namespace)
           /\ unissued' = unissued \ { namespace }
           /\ tasks' = [u \in Tasks |->
                          IF u = t THEN Idle
                          ELSE IF member /\ others[u].next > at
                          THEN [others[u] EXCEPT !.next = @ - 1]
                          ELSE others[u]]
           /\ ret' = Returned("unsubscribeFromNamespace", << namespace >>, TRUE)
    /\ subQueue' = Tail(subQueue)
    /\ lastDelivery' = NoDelivery
    /\ handled' = NoRun
    /\ UNCHANGED << dataVars, keyspaceEventsConfigured, subClient, disconnects,
                    subscribeCalls,
                    configSets >>

\* A failed pUnsubscribe that takes its namespace out of the registry all
\* the same.
PUnsubscribeFailsDeletes(t) ==
    /\ tasks[t].pc = "punsub"
    /\ IsNext(t)
    /\ subClient \in { "reconnecting", "closed" }
    /\ subscribedNamespaces' = RegistryDelete(subscribedNamespaces, tasks[t].namespaces[1])
    /\ tasks' = [tasks EXCEPT ![t] = Idle]
    /\ subQueue' = Tail(subQueue)
    /\ ret' = Returned("unsubscribeFromNamespace", tasks[t].namespaces, FALSE)
    /\ lastDelivery' = NoDelivery
    /\ handled' = NoRun
    /\ UNCHANGED << dataVars, keyspaceEventsConfigured, subClient,
                    listeners, disconnects, subscribeCalls, unissued,
                    configSets >>

\* The pUnsubscribe of a call fails, the connection being down: the call
\* logs and rethrows.
PUnsubscribeFails(t) ==
    /\ tasks[t].pc = "punsub"
    /\ IsNext(t)
    /\ subClient \in { "reconnecting", "closed" }
    /\ tasks' = [tasks EXCEPT ![t] = Idle]
    /\ subQueue' = Tail(subQueue)
    /\ ret' = Returned("unsubscribeFromNamespace", tasks[t].namespaces, FALSE)
    /\ lastDelivery' = NoDelivery
    /\ handled' = NoRun
    /\ UNCHANGED << dataVars, keyspaceEventsConfigured, subClient, subscribedNamespaces,
                    listeners, disconnects, subscribeCalls, unissued,
                    configSets >>

\* The store notifies a change of namespace:key to a client that has the
\* namespace's pattern subscribed: every listener registered for the pattern
\* is called with the message and emits its 'keyspace' event.
Notification(namespace, key, kind) ==
    /\ subClient = "ready"
    /\ listeners[namespace] > 0
    /\ handled' = NoRun
    /\ lastDelivery' =
         [namespace |-> namespace, key |-> key, event |-> kind,
          registered |-> namespace \in Members(subscribedNamespaces),
          emitted |-> [j \in 1..listeners[namespace] |->
                         KeyspaceEvent(namespace, kind, Channel(namespace, key))]]
    /\ UNCHANGED << dataVars, ret, keyspaceEventsConfigured, subClient, subscribedNamespaces,
                    listeners, tasks, subQueue, disconnects, subscribeCalls, unissued,
                    configSets >>

InitNotify ==
    Constructed(FALSE, [hasCacheSize |-> TRUE, cacheSize |-> COMPRESSION_CACHE_MAX_SIZE],
                EmptyStore)

NextNotify ==
    \/ \E t \in AppTasks, namespaces \in SubscriptionLists : Subscribe(t, namespaces)
    \/ \E t \in Tasks, ok \in BOOLEAN : ConfigSet(t, ok)
    \/ Connected
    \/ ConnectFails
    \/ Disconnect
    \/ Reconnected
    \/ \E t \in Tasks : PSubscribe(t)
    \/ \E t \in Tasks : PSubscribeFails(t)
    \/ \E t \in AppTasks, namespace \in SubscriptionNamespaces : Unsubscribe(t, namespace)
    \/ \E t \in AppTasks : PUnsubscribe(t)
    \/ \E t \in AppTasks : PUnsubscribeFails(t)
    \/ \E namespace \in SubscriptionNamespaces, key \in NotifiedKeys, kind \in EventKinds :
          Notification(namespace, key, kind)

\* A client whose notification connection comes and goes while the
\* application subscribes and unsubscribes and the store notifies changes.
SpecNotify == InitNotify /\ [][NextNotify]_vars

\* The same client where what only waits for the event loop or the network
\* does happen: a lost connection is re-established, and the round trips of
\* the calls in flight are answered while the connection is up.  Whether the
\* application makes a call is left open.
SpecNotifyFair ==
    /\ SpecNotify
    /\ WF_vars(Reconnected)
    /\ \A t \in Tasks :
          /\ WF_vars(\E ok \in BOOLEAN : ConfigSet(t, ok))
          /\ WF_vars(PSubscribe(t))
          /\ WF_vars(PUnsubscribe(t))

(***************************************************************************)
(* _formatKey and the removal of the namespace prefix                      *)
(***************************************************************************)

\* The namespaces and local keys the key codec is applied to: a key without
\* a separator, and one that contains the separator and, under the
\* namespace n, the prefix `n:` itself.
CodecNamespaces == { << "n" >>, << "a" >> }
CodecKeys == { << "a" >>, << "n", ":", "a" >> }

\* The key-format cache after _formatKey(n, '1') ... _formatKey(n, 'k') on a
\* new client.
FilledCache(k) ==
    [j \in 1..k |-> << FormatKey(<< "n" >>, NatToString(j, 10)),
                       FormatKey(<< "n" >>, NatToString(j, 10)) >>]

\* The key-format caches a behaviour starts from: empty, partly filled, one
\* entry short of the limit and at the limit.
FormatCaches ==
    { FilledCache(k) : k \in { 0, 2, KEY_FORMAT_CACHE_MAX - 1, KEY_FORMAT_CACHE_MAX } }

codecUnchanged ==
    << transformVars, store, expires, lastWrite, notifyVars, snapshot, batched, connection, inflight, subscription >>

\* _formatKey(namespace, key)
FormatKeyCall(namespace, key) ==
    /\ LET r == FormatKeyCached(keyFormatCache, namespace, key) IN
        /\ keyFormatCache' = r.cache
        /\ ret' = [op |-> "_formatKey", arg |-> << namespace, key >>, ok |-> TRUE,
                   val |-> Str(r.val)]
    /\ UNCHANGED codecUnchanged

\* const cleanKey = key.replace(`${namespace}:`, '') applied to the key that
\* _formatKey returned last, with the namespace of that call.
CleanKeyCall ==
    /\ ret.op = "_formatKey"
    /\ ret' = [op |-> "cleanKey", arg |-> ret.arg, ok |-> TRUE,
               val |-> Str(ReplaceFirst(ret.val[2], ret.arg[1] \o << ":" >>))]
    /\ UNCHANGED << keyFormatCache, codecUnchanged >>

InitKeys ==
    \E formatted \in FormatCaches :
        Running(FALSE, [hasCacheSize |-> TRUE, cacheSize |-> COMPRESSION_CACHE_MAX_SIZE],
                EmptyStore, formatted)

NextKeys ==
    \/ \E ns \in CodecNamespaces, k \in CodecKeys : FormatKeyCall(ns, k)
    \/ CleanKeyCall

\* A client whose keys are formatted and stripped of their prefix again.
SpecKeys == InitKeys /\ [][NextKeys]_vars

(***************************************************************************)
(* clearCaches, resetPerformanceStats and getPerformanceStats              *)
(***************************************************************************)

\* The values setKey is called with between maintenance calls.
MaintenanceValues == { Str(<< "A", "a" >>) }

\* (x).toFixed(2) for x = num / den * 100 with natural num <= den, den > 0.
PercentToFixed2(num, den) ==
    LET hundredths == (2 * 10000 * num + den) \div (2 * den)
    IN  NatToString(hundredths \div 100, 10) \o << "." >>
        \o NatToString((hundredths % 100) \div 10, 10) \o NatToString(hundredths % 10, 10)

\* The cacheHitRate of getPerformanceStats: 0 / 0 is NaN and NaN || 0 is 0.
CacheHitRate(stats) ==
    (IF stats.cacheHits + stats.cacheMisses = 0
     THEN << "0", ".", "0", "0" >>
     ELSE PercentToFixed2(stats.cacheHits, stats.cacheHits + stats.cacheMisses))
    \o << "%" >>

\* clearCaches() leaving out the key-format cache.
ClearCachesPartly ==
    /\ compressionCache' = << >>
    /\ decompressionCache' = << >>
    /\ ret' = [op |-> "clearCaches", arg |-> << >>, ok |-> TRUE, val |-> Undefined]
    /\ UNCHANGED << enableCompression, performanceThresholds, performanceStats,
                    storeVars, notifyVars, snapshot, batched, connection, inflight, subscription >>

\* clearCaches()
ClearCaches ==
    /\ compressionCache' = << >>
    /\ decompressionCache' = << >>
    /\ keyFormatCache' = << >>
    /\ ret' = [op |-> "clearCaches", arg |-> << >>, ok |-> TRUE, val |-> Undefined]
    /\ UNCHANGED << enableCompression, performanceThresholds, performanceStats,
                    store, expires, lastWrite, notifyVars, snapshot, batched, connection, inflight, subscription >>

\* resetPerformanceStats()
ResetPerformanceStats ==
    /\ performanceStats' = ZeroStats
    /\ ret' = [op |-> "resetPerformanceStats", arg |-> << >>, ok |-> TRUE,
               val |-> Undefined]
    /\ UNCHANGED << enableCompression, performanceThresholds, compressionCache,
                    decompressionCache, storeVars, notifyVars, snapshot, batched, connection, inflight, subscription >>

\* getPerformanceStats(): the counters and the hit rate (the two averages of
\* measured times are left out, the model has no clock).
GetPerformanceStats ==
    /\ ret' = [op |-> "getPerformanceStats", arg |-> << >>, ok |-> TRUE,
               val |-> Mapping([cacheHits |-> performanceStats.cacheHits,
                                cacheMisses |-> performanceStats.cacheMisses,
                                operationCount |-> performanceStats.operationCount,
                                cacheHitRate |-> CacheHitRate(performanceStats)])]
    /\ UNCHANGED << transformVars, storeVars, notifyVars, snapshot, batched, connection, inflight, subscription >>

\* optimizeCaches(): a transform cache of more than 1.5 times the ceiling
\* and a key-format cache of more than 1500 entries are cleared (a comparison
\* with NaN, when there is no cacheSize, is false).
OptimizeCaches ==
    /\ compressionCache' =
          IF performanceThresholds.hasCacheSize
             /\ 2 * Len(compressionCache) > 3 * performanceThresholds.cacheSize
          THEN << >> ELSE compressionCache
    /\ decompressionCache' =
          IF performanceThresholds.hasCacheSize
             /\ 2 * Len(decompressionCache) > 3 * performanceThresholds.cacheSize
          THEN << >> ELSE decompressionCache
    /\ keyFormatCache' = IF Len(keyFormatCache) > 1500 THEN << >> ELSE keyFormatCache
    /\ ret' = [op |-> "optimizeCaches", arg |-> << >>, ok |-> TRUE, val |-> Undefined]
    /\ UNCHANGED << enableCompression, performanceThresholds, performanceStats,
                    store, expires, lastWrite, notifyVars, snapshot, batched, connection, inflight, subscription >>

\* destroy() that also zeroes the counters.
DestroyResets ==
    /\ compressionCache' = << >>
    /\ decompressionCache' = << >>
    /\ keyFormatCache' = << >>
    /\ performanceStats' = ZeroStats
    /\ connection' = [connection EXCEPT !.check = [isValid |-> FALSE, fresh |-> FALSE],
                                        !.isOpen[connection.client] = FALSE]
    /\ ret' = [op |-> "destroy", arg |-> << >>, ok |-> TRUE, val |-> Undefined]
    /\ UNCHANGED << enableCompression, performanceThresholds,
                    store, expires, lastWrite, notifyVars, snapshot, batched, inflight, subscription >>

\* destroy(): the three caches are cleared, the cached connection check is
\* invalidated and the main client is told to quit (this.subClient is null
\* on a client that never subscribed, no batch timeout is ever set).
Destroy ==
    /\ compressionCache' = << >>
    /\ decompressionCache' = << >>
    /\ keyFormatCache' = << >>
    /\ connection' = [connection EXCEPT !.check = [isValid |-> FALSE, fresh |-> FALSE],
                                        !.isOpen[connection.client] = FALSE]
    /\ ret' = [op |-> "destroy", arg |-> << >>, ok |-> TRUE, val |-> Undefined]
    /\ UNCHANGED << enableCompression, performanceThresholds, performanceStats,
                    store, expires, lastWrite, notifyVars, snapshot, batched, inflight, subscription >>

InitMaintenance ==
    \E compression \in BOOLEAN :
        Constructed(compression,
                    [hasCacheSize |-> TRUE, cacheSize |-> COMPRESSION_CACHE_MAX_SIZE],
                    EmptyStore)

NextMaintenance ==
    \/ \E ns \in Namespaces, k \in LocalKeys, v \in MaintenanceValues : SetKey(ns, k, v, 0)
    \/ \E ns \in Namespaces, k \in LocalKeys : GetKey(ns, k)
    \/ ClearCaches
    \/ ResetPerformanceStats
    \/ GetPerformanceStats
    \/ OptimizeCaches
    \/ Destroy

\* A client whose caches are cleared and whose statistics are reset and read
\* between setKey and getKey calls.
SpecMaintenance == InitMaintenance /\ [][NextMaintenance]_vars

(***************************************************************************)
(* hset and hget                                                           *)
(***************************************************************************)

\* The field names and values of the hash operations, and the forms of the
\* field argument of hget: null (all fields), one name, or an array of names.
HashFields == { << "f" >>, << "g" >> }
HashValues == { Str(<< "A", "a" >>) }
FieldSpecs ==
    { Null } \cup { Str(f) : f \in HashFields }
    \cup { Arr([j \in 1..Len(fs) |-> Str(fs[j])]) : fs \in SeqsUpTo(HashFields, 2) }

\* The stores the hash operations start on: empty, or with a string under
\* the key b.
HashStores ==
    { EmptyStore,
      [EmptyStore EXCEPT ![FormatKey(<< "n" >>, << "b" >>)] = << "string", << "1" >> >>] }

\* `value` in hget after the branch on the field argument: the reply of
\* hGetAll as it is, the non-null replies of hmGet collected in an object
\* under their field names, the reply of hGet wrapped in an object unless it
\* is null; err = TRUE when the command is rejected (WRONGTYPE, or HMGET
\* without a field).
HashReply(entry, field) ==
    LET content == entry[2]
        has(f) == entry[1] = "hash" /\ \E j \in 1..Len(content) : content[j][1] = f
        get(f) == Str(content[CHOOSE j \in 1..Len(content) : content[j][1] = f][2])
        names == [j \in 1..Len(field[2]) |-> field[2][j][2]]
        kept == SelectSeq([j \in 1..Len(names) |-> j],
                          LAMBDA j : has(names[j]) /\ \A i \in 1..(j - 1) : names[i] # names[j])
    IN  IF entry[1] \notin { "none", "hash" }
        THEN [err |-> TRUE, val |-> Null]
        ELSE CASE field = Null ->
                    [err |-> FALSE,
                     val |-> Obj([j \in 1..Len(content) |->
                                    << content[j][1], Str(content[j][2]) >>])]
               [] field[1] = "array" ->
                    IF Len(field[2]) = 0
                    THEN [err |-> TRUE, val |-> Null]
                    ELSE [err |-> FALSE,
                          val |-> Obj([k \in 1..Len(kept) |->
                                         << names[kept[k]], get(names[kept[k]]) >>])]
               [] OTHER ->
                    [err |-> FALSE,
                     val |-> IF has(field[2])
                             THEN Obj(<< << field[2], get(field[2]) >> >>)
                             ELSE Null]

RECURSIVE DecompressFields(_, _, _, _)
\* The loop of hget over Object.entries(value): each field value is
\* decompressed and decoded in turn; a _decompress that rejects ends the loop
\* (ok = FALSE).
DecompressFields(pairs, cache, stats, result) ==
    IF Len(pairs) = 0
    THEN [ok |-> TRUE, val |-> result, cache |-> cache, stats |-> stats]
    ELSE LET d == DecompressCall(cache, stats, pairs[1][2])
         IN  IF ~d.ok
             THEN [ok |-> FALSE, val |-> result, cache |-> d.cache, stats |-> d.stats]
             ELSE DecompressFields(Tail(pairs), d.cache, d.stats,
                                   Append(result, << pairs[1][1], Decode(d.val) >>))

\* async hset(namespace, key, field, value)
Hset(namespace, key, field, value) ==
    /\ Budget(1)
    /\ LET redisKey == FormatKeyCached(keyFormatCache, namespace, key)
           c == CompressCall(compressionCache, performanceStats, Serialize(value))
           entry == store[redisKey.val]
           content == entry[2]
           written ==
               IF \E j \in 1..Len(content) : content[j][1] = field
               THEN [j \in 1..Len(content) |->
                       IF content[j][1] = field THEN << field, c.val >> ELSE content[j]]
               ELSE Append(content, << field, c.val >>)
       IN  /\ keyFormatCache' = redisKey.cache
           /\ compressionCache' = c.cache
           /\ IF entry[1] \notin { "none", "hash" }
              THEN /\ performanceStats' = c.stats
                   /\ ret' = [op |-> "hset", arg |-> << namespace, key, field >>,
                              ok |-> FALSE, val |-> Undefined]
                   /\ UNCHANGED store
              ELSE /\ performanceStats' = [c.stats EXCEPT !.operationCount = @ + 1]
                   /\ store' = [store EXCEPT ![redisKey.val] = << "hash", written >>]
                   /\ ret' = [op |-> "hset", arg |-> << namespace, key, field >>,
                              ok |-> TRUE, val |-> Undefined]
    /\ UNCHANGED << enableCompression, performanceThresholds, decompressionCache,
                    expires, lastWrite, notifyVars, snapshot, batched, connection, inflight, subscription >>

\* async hget(namespace, key, field = null)
Hget(namespace, key, field) ==
    /\ Budget(1)
    /\ enableCompression => TransformCalls + Cardinality(HashFields) <= MaxTransformCalls
    /\ LET redisKey == FormatKeyCached(keyFormatCache, namespace, key)
           reply == HashReply(store[redisKey.val], field)
           logged == [performanceStats EXCEPT !.operationCount = @ + 1]
           d == DecompressFields(reply.val[2], decompressionCache, logged, << >>)
           arg == << namespace, key, field >>
       IN  /\ keyFormatCache' = redisKey.cache
           /\ IF reply.err
              THEN /\ ret' = [op |-> "hget", arg |-> arg, ok |-> TRUE, val |-> Null]
                   /\ UNCHANGED << decompressionCache, performanceStats >>
              ELSE IF reply.val = Null
              THEN /\ ret' = [op |-> "hget", arg |-> arg, ok |-> TRUE, val |-> Null]
                   /\ performanceStats' = logged
                   /\ UNCHANGED decompressionCache
              ELSE /\ decompressionCache' = d.cache
                   /\ performanceStats' = d.stats
                   /\ ret' = [op |-> "hget", arg |-> arg, ok |-> TRUE,
                              val |-> IF ~d.ok THEN Null
                                      ELSE IF field[1] = "string" THEN d.val[1][2]
                                      ELSE Obj(d.val)]
    /\ UNCHANGED << enableCompression, performanceThresholds, compressionCache,
                    store, expires, lastWrite, notifyVars, snapshot, batched, connection, inflight, subscription >>

InitHash ==
    \E compression \in BOOLEAN, content \in HashStores :
        Constructed(compression,
                    [hasCacheSize |-> TRUE, cacheSize |-> COMPRESSION_CACHE_MAX_SIZE],
                    content)

NextHash ==
    \/ \E ns \in Namespaces, k \in LocalKeys, f \in HashFields, v \in HashValues :
          Hset(ns, k, f, v)
    \/ \E ns \in Namespaces, k \in LocalKeys, field \in FieldSpecs : Hget(ns, k, field)

\* A client whose hset and hget are called one after another.
SpecHash == InitHash /\ [][NextHash]_vars

(***************************************************************************)
(* The main connection: _initializeRedisClient, _ensureClientConnected,    *)
(* reconnectClient, createPipeline and close                               *)
(***************************************************************************)

connectionUnchanged ==
    << transformVars, storeVars, notifyVars, snapshot, batched, inflight, subscription >>

\* this.client = createClient(this.connectionConfig) followed by the call of
\* connect(): a new handle, owned by the instance from now on, that is open.
CreateClient(c) ==
    [c EXCEPT !.handles = @ + 1, !.client = c.handles + 1, !.isOpen = Append(@, TRUE)]

\* The connect() that the constructor started settles: connected, or rejected
\* (the handle is closed again); _initializeRedisClient swallows the error
\* and this.connectionPromise resolves either way.
ConstructorConnects(ok) ==
    /\ ~connection.initialized
    /\ connection' = [connection EXCEPT !.initialized = TRUE,
                                        !.isOpen[1] = @ /\ ok]
    /\ UNCHANGED << ret, connectionUnchanged >>

\* _ensureClientConnected up to its first await, or to its return when the
\* cached check is valid and younger than CONNECTION_CACHE_TTL.
EnsureStart(t) ==
    /\ connection.pc[t] = "idle"
    /\ IF connection.check.isValid /\ connection.check.fresh
       THEN connection' = [connection EXCEPT !.pc[t] = "returned"]
       ELSE IF ~connection.isOpen[connection.client]
       THEN /\ connection.handles < MaxHandles
            /\ connection' = [CreateClient(connection) EXCEPT
                                 !.check.isValid = FALSE,
                                 !.pc[t] = "connect",
                                 !.handle[t] = connection.handles + 1]
       ELSE connection' = [connection EXCEPT !.pc[t] = "awaitInit"]
    /\ UNCHANGED << ret, connectionUnchanged >>

\* The connect() of the handle this call created settles; the error of a
\* rejected connect is swallowed by _initializeRedisClient, so the call goes
\* on, stores a valid check and returns.
EnsureConnected(t, ok) ==
    /\ connection.pc[t] = "connect"
    /\ connection' = [connection EXCEPT
                         !.isOpen[connection.handle[t]] = @ /\ ok,
                         !.check = [isValid |-> TRUE, fresh |-> TRUE],
                         !.pc[t] = "returned"]
    /\ UNCHANGED << ret, connectionUnchanged >>

\* await this.connectionPromise is over: the call stores a valid check and
\* returns.
EnsureAwaited(t) ==
    /\ connection.pc[t] = "awaitInit"
    /\ connection.initialized
    /\ connection' = [connection EXCEPT
                         !.check = [isValid |-> TRUE, fresh |-> TRUE],
                         !.pc[t] = "returned"]
    /\ UNCHANGED << ret, connectionUnchanged >>

\* The operation that called _ensureClientConnected sends its command on
\* this.client; a closed client rejects it (ok = FALSE).
SendCommand(t) ==
    /\ connection.pc[t] = "returned"
    /\ connection' = [connection EXCEPT !.pc[t] = "idle"]
    /\ ret' = [op |-> "sendCommand", arg |-> Num(connection.client),
               ok |-> connection.isOpen[connection.client], val |-> Undefined]
    /\ UNCHANGED connectionUnchanged

\* close(): this.client.quit()
Close ==
    /\ connection.isOpen[connection.client]
    /\ connection' = [connection EXCEPT !.isOpen[connection.client] = FALSE]
    /\ UNCHANGED << ret, connectionUnchanged >>

\* CONNECTION_CACHE_TTL milliseconds pass since the last stored check.
TimePasses ==
    /\ connection.check.fresh
    /\ connection' = [connection EXCEPT !.check.fresh = FALSE]
    /\ UNCHANGED << ret, connectionUnchanged >>

\* reconnectClient() on a client that is not open, up to the settled connect.
ReconnectClient(ok) ==
    /\ ~connection.isOpen[connection.client]
    /\ connection.handles < MaxHandles
    /\ connection' = [CreateClient(connection) EXCEPT
                         !.isOpen[connection.handles + 1] = ok]
    /\ ret' = [op |-> "reconnectClient", arg |-> Num(connection.client), ok |-> TRUE,
               val |-> Undefined]
    /\ UNCHANGED connectionUnchanged

\* createPipeline(): this.client.multi(), a pipeline bound to the handle
\* this.client is at the time of the call.
CreatePipeline ==
    /\ connection.isOpen[connection.client]
    /\ connection' = [connection EXCEPT !.pipeline = connection.client]
    /\ ret' = [op |-> "createPipeline", arg |-> Null, ok |-> TRUE,
               val |-> Num(connection.client)]
    /\ UNCHANGED connectionUnchanged

InitConnect ==
    Constructed(FALSE, [hasCacheSize |-> TRUE, cacheSize |-> COMPRESSION_CACHE_MAX_SIZE],
                EmptyStore)

NextConnect ==
    \/ \E ok \in BOOLEAN : ConstructorConnects(ok)
    \/ \E t \in ConnectTasks : EnsureStart(t)
    \/ \E t \in ConnectTasks, ok \in BOOLEAN : EnsureConnected(t, ok)
    \/ \E t \in ConnectTasks : EnsureAwaited(t)
    \/ \E t \in ConnectTasks : SendCommand(t)
    \/ Close
    \/ TimePasses
    \/ \E ok \in BOOLEAN : ReconnectClient(ok)
    \/ CreatePipeline

\* A client whose main connection is checked, closed and reopened while two
\* operations run.
SpecConnect == InitConnect /\ [][NextConnect]_vars

(***************************************************************************)
(* _compress and _decompress calls in flight at the same time              *)
(***************************************************************************)

\* The texts the overlapping calls are made with: "Aa" and "BB" have the
\* same fingerprint, "1" is not deflated data.
RacePayloads == { Serialize(v) : v \in BulkValues }
RaceStored == { DeflateBase64(p) : p \in RacePayloads } \cup { << "1" >> }

raceUnchanged ==
    << enableCompression, performanceThresholds, storeVars, ret, notifyVars, snapshot,
       batched, connection, subscription >>

\* _compress(str) up to `await deflateAsync(buffer)`, or to its return when
\* compression is disabled or the fingerprint is in the cache.
CompressStart(t, str) ==
    /\ inflight.call[t].pc # "pending"
    /\ TransformCalls < MaxTransformCalls
    /\ LET key == GetCacheKey(str)
           call == [pc |-> "done", op |-> "_compress", arg |-> str, hit |-> FALSE,
                    ok |-> TRUE, val |-> str]
       IN  IF ~enableCompression
           THEN /\ inflight' = [inflight EXCEPT !.call[t] = call]
                /\ UNCHANGED performanceStats
           ELSE IF CacheHas(compressionCache, key)
           THEN /\ inflight' = [inflight EXCEPT !.call[t] =
                                   [call EXCEPT !.hit = TRUE,
                                                !.val = CacheGet(compressionCache, key)]]
                /\ performanceStats' = CountLookup(performanceStats, TRUE)
           ELSE /\ inflight' = [inflight EXCEPT !.call[t] = [call EXCEPT !.pc = "pending"]]
                /\ performanceStats' = CountLookup(performanceStats, FALSE)
    /\ UNCHANGED << compressionCache, decompressionCache, raceUnchanged >>

\* deflateAsync has finished: the call manages the cache size, stores its
\* result under its fingerprint and returns it.
CompressFinish(t) ==
    /\ inflight.call[t].pc = "pending"
    /\ inflight.call[t].op = "_compress"
    /\ LET str == inflight.call[t].arg
           result == DeflateBase64(str)
       IN  /\ compressionCache' =
                 CacheSet(ManageCacheSize(compressionCache, performanceThresholds),
                          GetCacheKey(str), result)
           /\ inflight' = [inflight EXCEPT !.call[t].pc = "done",
                                           !.call[t].val = result,
                                           !.lastStore.compress = t]
    /\ UNCHANGED << decompressionCache, performanceStats, raceUnchanged >>

\* _decompress(data) up to `await inflateAsync(buffer)`, or to its return
\* when compression is disabled or the fingerprint is in the cache.
DecompressStart(t, data) ==
    /\ inflight.call[t].pc # "pending"
    /\ TransformCalls < MaxTransformCalls
    /\ LET key == CacheKeyOf(Str(data))
           call == [pc |-> "done", op |-> "_decompress", arg |-> data, hit |-> FALSE,
                    ok |-> TRUE, val |-> data]
       IN  IF ~enableCompression
           THEN /\ inflight' = [inflight EXCEPT !.call[t] = call]
                /\ UNCHANGED performanceStats
           ELSE IF CacheHas(decompressionCache, key)
           THEN /\ inflight' = [inflight EXCEPT !.call[t] =
                                   [call EXCEPT !.hit = TRUE,
                                                !.val = CacheGet(decompressionCache, key)]]
                /\ performanceStats' = CountLookup(performanceStats, TRUE)
           ELSE /\ inflight' = [inflight EXCEPT !.call[t] = [call EXCEPT !.pc = "pending"]]
                /\ performanceStats' = CountLookup(performanceStats, FALSE)
    /\ UNCHANGED << compressionCache, decompressionCache, raceUnchanged >>

\* inflateAsync has finished: with a result the call manages the cache size,
\* stores the text under its fingerprint and returns it; without one it
\* throws (ok = FALSE) and stores nothing.
DecompressFinish(t) ==
    /\ inflight.call[t].pc = "pending"
    /\ inflight.call[t].op = "_decompress"
    /\ LET data == inflight.call[t].arg
           inflated == InflateBase64(Str(data))
       IN  IF inflated.ok
           THEN /\ decompressionCache' =
                      CacheSet(ManageCacheSize(decompressionCache, performanceThresholds),
                               CacheKeyOf(Str(data)), inflated.val)
                /\ inflight' = [inflight EXCEPT !.call[t].pc = "done",
                                                !.call[t].val = inflated.val,
                                                !.lastStore.decompress = t]
           ELSE /\ inflight' = [inflight EXCEPT !.call[t].pc = "done",
                                                !.call[t].ok = FALSE]
                /\ UNCHANGED decompressionCache
    /\ UNCHANGED << compressionCache, performanceStats, raceUnchanged >>

NextRace ==
    \/ \E t \in RaceTasks, str \in RacePayloads : CompressStart(t, str)
    \/ \E t \in RaceTasks : CompressFinish(t)
    \/ \E t \in RaceTasks, data \in RaceStored : DecompressStart(t, data)
    \/ \E t \in RaceTasks : DecompressFinish(t)

\* A client on which two callers call _compress and _decompress side by side.
SpecRace == InitTransform /\ [][NextRace]_vars

(***************************************************************************)
(* getNamespaceStringValues                                                *)
(***************************************************************************)

\* What a namespace of string keys holds under a key: nothing, the
\* compressed text of "Aa", the plain text "1" that incrementCounter leaves,
\* or the empty string.
StringEntries ==
    { NoEntry,
      << "string", DeflateBase64(<< "A", "a" >>) >>,
      << "string", << "1" >> >>,
      << "string", << >> >> }

\* getNamespaceStringValues(namespace, batchSize) up to the first await of
\* the getBulkBatched it returns the result of: the namespace is listed,
\* the prefix is taken off every key, and getBulkBatched is called with the
\* clean keys.
GetNamespaceStringValues(namespace, batchSize, keys) ==
    BatchedCall("getBulkBatched", namespace,
                [j \in 1..Len(keys) |-> ReplaceFirst(keys[j], namespace \o << ":" >>)],
                batchSize, 0)

InitStrings ==
    \E compression \in BOOLEAN, content \in [RedisKeys -> StringEntries] :
        Constructed(compression,
                    [hasCacheSize |-> TRUE, cacheSize |-> COMPRESSION_CACHE_MAX_SIZE],
                    content)

NextStrings ==
    \/ \E namespace \in Namespaces, batchSize \in 1..MaxBatchSize :
          \E keys \in Listings(Matching(namespace)) :
             SnapshotKeys(namespace, batchSize, keys)
    \/ SnapshotTypes
    \/ \E reversed \in BOOLEAN : SnapshotValues(reversed)
    \/ \E namespace \in Namespaces, batchSize \in 1..MaxBatchSize :
          \E keys \in Listings(Matching(namespace)) :
             GetNamespaceStringValues(namespace, batchSize, keys)
    \/ \E order \in CompletionOrders(Len(InFlight)) : GetBulkCompletes(order)

\* A client whose getNamespaceSnapshot and getNamespaceStringValues are
\* called on a namespace that holds string keys only.
SpecStrings == InitStrings /\ [][NextStrings]_vars

(***************************************************************************)
(* Claims about the transform pipeline                                     *)
(***************************************************************************)

\* _decompress(_compress(text)) started in the current state of the two
\* caches: what the second call returns.
RoundTrip(text) ==
    LET c == CompressCached(compressionCache, performanceThresholds, text)
    IN  DecompressCached(decompressionCache, performanceThresholds, Str(c.val))

\* C2: with compression enabled, in every reachable state of the two caches,
\* _decompress(_compress(_serialize(v))) returns _serialize(v) for every value v.
C2_RoundTripInEveryCacheState ==
    enableCompression =>
        \A v \in TransformValues :
            /\ RoundTrip(Serialize(v)).ok
            /\ RoundTrip(Serialize(v)).val = Str(Serialize(v))

\* C10: in every reachable state each transform cache holds at most
\* performanceThresholds.cacheSize entries, whatever ceiling is configured.
C10_CachesWithinCeiling ==
    performanceThresholds.hasCacheSize =>
        /\ Len(compressionCache) <= performanceThresholds.cacheSize
        /\ Len(decompressionCache) <= performanceThresholds.cacheSize

(***************************************************************************)
(* Claims about key and bulk operations                                    *)
(***************************************************************************)

\* The keys of a list of <<key, value>> entries, in order.
EntryKeys(entries) == [i \in 1..Len(entries) |-> entries[i][1]]

\* The value a list of entries with distinct keys gives to one of its keys.
EntryValue(entries, key) ==
    entries[CHOOSE i \in 1..Len(entries) : entries[i][1] = key][2]

\* The keys a key list names.
Requested(keys) == { keys[i] : i \in 1..Len(keys) }

\* C1: a getBulk of exactly the keys of the last write, a setBulk to the same
\* namespace, returns the written mapping, each value of its original type;
\* a getKey of the key of the last write, a setKey, returns the written value.
C1_WriteReadFidelity ==
    /\ ( /\ ret.op = "getBulk"
         /\ lastWrite.op = "setBulk"
         /\ ret.arg = << lastWrite.namespace, EntryKeys(lastWrite.entries) >> )
       => /\ ret.ok
          /\ ret.val = Mapping([k \in Requested(EntryKeys(lastWrite.entries)) |->
                                  EntryValue(lastWrite.entries, k)])
    /\ ( /\ ret.op = "getKey"
         /\ lastWrite.op = "setKey"
         /\ ret.arg = << lastWrite.namespace, lastWrite.entries[1][1] >> )
       => /\ ret.ok
          /\ ret.val = lastWrite.entries[1][2]

\* The text a string entry of the store stands for: the stored text itself
\* with compression disabled, what it inflates to with compression enabled.
OwnText(entry) ==
    IF enableCompression THEN InflateBase64(Str(entry[2])) ELSE [ok |-> TRUE, val |-> entry[2]]

\* C8: a getBulk that returns gives a mapping over exactly the requested keys
\* in which a key with no stored value has null and a key with a stored value
\* has its own decoded value; a getBulk of absent keys only does return.
C8_MissingKeysInBulkRead ==
    ret.op = "getBulk" =>
        LET namespace == ret.arg[1]
            keys == ret.arg[2]
            entry == [k \in Requested(keys) |-> store[FormatKey(namespace, k)]]
        IN  /\ (\A k \in Requested(keys) : entry[k][1] = "none") => ret.ok
            /\ ret.ok =>
                /\ ret.val[1] = "mapping"
                /\ DOMAIN ret.val[2] = Requested(keys)
                /\ \A k \in Requested(keys) :
                      /\ entry[k][1] = "none" => ret.val[2][k] = Null
                      /\ (entry[k][1] = "string" /\ OwnText(entry[k]).ok)
                            => ret.val[2][k] = Decode(Str(OwnText(entry[k]).val))

\* C9: a getBulk whose pipeline was answered without an error returns a
\* mapping, whatever the fetched values decompress or decode to: a value that
\* cannot be processed has null or its raw text, the others their decoded value.
C9_PerKeyFailureIsolation ==
    ret.op = "getBulk" =>
        LET namespace == ret.arg[1]
            keys == ret.arg[2]
            entry == [k \in Requested(keys) |-> store[FormatKey(namespace, k)]]
        IN  (\A k \in Requested(keys) : entry[k][1] \in { "none", "string" })
            => /\ ret.ok
               /\ ret.val[1] = "mapping"
               /\ \A k \in Requested(keys) :
                     (entry[k][1] = "string" /\ ~OwnText(entry[k]).ok)
                        => ret.val[2][k] \in { Null, Str(entry[k][2]) }

(***************************************************************************)
(* Claims about keyspace notifications                                     *)
(***************************************************************************)

\* C3: a store notification for a key of a namespace that is in the registry
\* makes the client emit exactly one 'keyspace' event, the one that names the
\* namespace, the key and the kind of change.
C3_ExactlyOneRouting ==
    lastDelivery.registered =>
        lastDelivery.emitted =
            << [namespace |-> lastDelivery.namespace, key |-> lastDelivery.key,
                event |-> lastDelivery.event] >>

\* C4: every namespace that a 'ready' event of the notification connection
\* finds in the registry has its pattern subscription issued again by the
\* 'ready' handler, unless the application unsubscribes it first; and a run of
\* the handler during which the application changed nothing ends with the
\* registry it started with.
C4_ResubscriptionOnReconnect ==
    /\ \A namespace \in SubscriptionNamespaces :
          (namespace \in unissued) ~> (namespace \notin unissued)
    /\ [](handled.done /\ handled.clean => handled.after = handled.before)

\* A run of the 'ready' handler after a reconnect has gone through a registry
\* of two namespaces undisturbed and nothing is left to issue.
C4_Witness ==
    /\ handled.done
    /\ handled.clean
    /\ Cardinality(handled.before) = 2
    /\ disconnects >= 1
    /\ unissued = { }

(***************************************************************************)
(* Claims about the namespace snapshot                                     *)
(***************************************************************************)

\* The keys the store holds under the namespace of the snapshot call.
SnapshotKeySet == Matching(snapshot.namespace)

\* A store key without the `${namespace}:` prefix of the snapshot call.
CleanKey(key) == ReplaceFirst(key, snapshot.namespace \o << ":" >>)

\* The snapshot call has returned a plain object that has the clean key of
\* the given store key as a property.
InSnapshot(key) ==
    /\ ret.ok
    /\ ret.val[1] = "object"
    /\ CleanKey(key) \in Requested(EntryKeys(ret.val[2]))

\* A value is what a snapshot has to hold for an entry of the store: the
\* decoded own text of a string, the field-to-value object of a hash, the
\* elements of a list in order, the members of a set in some order, the
\* member-to-score object of a sorted set.
SnapshotValueOf(entry, value) ==
    CASE entry[1] = "string" ->
           OwnText(entry).ok => value = Decode(Str(OwnText(entry).val))
      [] entry[1] = "hash" ->
           value = Obj([j \in 1..Len(entry[2]) |-> << entry[2][j][1], Str(entry[2][j][2]) >>])
      [] entry[1] = "list" ->
           value = Arr([j \in 1..Len(entry[2]) |-> Str(entry[2][j])])
      [] entry[1] = "set" ->
           /\ value[1] = "array"
           /\ Len(value[2]) = Len(entry[2])
           /\ { value[2][j] : j \in 1..Len(value[2]) }
                 = { Str(entry[2][j]) : j \in 1..Len(entry[2]) }
      [] entry[1] = "zset" ->
           value = Obj([j \in 1..Len(entry[2]) |-> << entry[2][j][1], Num(entry[2][j][2]) >>])
      [] OTHER -> TRUE

C6_SnapshotDegradation ==
    ( snapshot.pc = "done" /\ ~snapshot.unknown )
    => /\ ret.ok
       /\ snapshot.writes = 0 =>
             \A k \in SnapshotKeySet :
                (store[k][1] = "string" /\ ~OwnText(store[k]).ok)
                   => /\ InSnapshot(k)
                      /\ EntryValue(ret.val[2], CleanKey(k)) = Str(store[k][2])

\* C7: a getNamespaceSnapshot that met a key of a type outside string, hash,
\* list, set, zset and none, over a namespace that no one wrote during the
\* call, returns a snapshot that has every key of the five types.
C7_UnknownTypeNotFatal ==
    ( snapshot.pc = "done" /\ snapshot.unknown /\ snapshot.writes = 0 )
    => /\ ret.ok
       /\ \A k \in SnapshotKeySet : store[k][1] \in SNAPSHOT_TYPES => InSnapshot(k)

(***************************************************************************)
(* Claims about the batched bulk operations                                *)
(***************************************************************************)

\* The consecutive slices of b items each, the last one shorter when b does
\* not divide the number of items: ceil(n / b) slices.
Chunks(items, b) ==
    LET n == Len(items)
    IN  [k \in 1..((n + b - 1) \div b) |->
            SubSeq(items, (k - 1) * b + 1, IF k * b < n THEN k * b ELSE n)]

\* C11: the slices a setBulkBatched or getBulkBatched call has submitted to
\* the bulk operation are the first of the ceil(n/b) consecutive slices of
\* its items, in order, each of b items except a last one of n mod b; a
\* slice is submitted only when every earlier one has completed; and a call
\* that returns has submitted and completed all of them.
C11_Chunking ==
    batched.pc # "idle" =>
        LET n == Len(batched.items)
            b == batched.batchSize
            chunks == Chunks(batched.items, b)
            count == Len(batched.submitted)
        IN  /\ Len(chunks) * b >= n
            /\ n > 0 => (Len(chunks) - 1) * b < n
            /\ count <= Len(chunks)
            /\ \A k \in 1..count :
                  /\ batched.submitted[k] = chunks[k]
                  /\ Len(batched.submitted[k]) =
                        IF k < Len(chunks) \/ n % b = 0 THEN b ELSE n % b
            /\ batched.completed = IF batched.pc = "await" THEN count - 1 ELSE count
            /\ (batched.pc = "done" /\ ret.ok) => count = Len(chunks)

\* A getBulkBatched of three keys in batches of two has returned after a
\* slice of two keys and a slice of one.
C11_Witness ==
    /\ batched.pc = "done"
    /\ batched.op = "getBulkBatched"
    /\ ret.op = "getBulkBatched" /\ ret.ok
    /\ Len(batched.items) = 3 /\ batched.batchSize = 2
    /\ batched.completed = 2
    /\ Len(batched.submitted[1]) = 2 /\ Len(batched.submitted[2]) = 1

\* C12: over the life of a client at most one CONFIG SET command is sent,
\* whatever calls of subscribeToKeyspaceEvents the application and the
\* 'ready' handler make, and the commands waiting on the notification
\* connection are pattern subscriptions and unsubscriptions only.
C12_OneTimeConfiguration ==
    /\ configSets <= 1
    /\ \A j \in 1..Len(subQueue) : tasks[subQueue[j]].pc \in { "psub", "punsub" }

\* C13: the end of a CONFIG SET round trip, failed or not, leaves the call
\* running with its namespaces still to subscribe and returns nothing to
\* the caller; and a subscribeToKeyspaceEvents call that has returned
\* normally has every requested namespace in the registry.
C13_ConfigFailureNotFatal ==
    /\ []( (ret.op = "subscribeToKeyspaceEvents" /\ ret.ok)
             => \A j \in 1..Len(ret.arg) : ret.arg[j] \in Members(subscribedNamespaces) )
    /\ [][ \A t \in Tasks :
             (tasks[t].pc = "config" /\ tasks'[t].pc # "config")
                => /\ tasks'[t].pc \in { "connect", "psub" }
                   /\ tasks'[t].namespaces = tasks[t].namespaces
                   /\ tasks'[t].i = 1
                   /\ ret' = ret ]_vars

\* The application's call for n and m has returned normally although its
\* CONFIG SET, the only one sent, failed.
C13_Witness ==
    /\ ~keyspaceEventsConfigured
    /\ configSets = 1
    /\ ret = Returned("subscribeToKeyspaceEvents", << << "n" >>, << "m" >> >>, TRUE)
    /\ Members(subscribedNamespaces) = { << "n" >>, << "m" >> }

\* C14: an unsubscribeFromNamespace whose pUnsubscribe was answered leaves
\* the namespace out of the registry and without listeners; one called for
\* a namespace that is not in the registry returns normally at once, sends
\* no command and changes neither the registry nor the listeners.
C14_Unsubscribe ==
    [][ \A t \in AppTasks, namespace \in SubscriptionNamespaces :
          /\ ( /\ tasks[t].pc = "punsub"
               /\ tasks[t].namespaces = << namespace >>
               /\ tasks'[t].pc = "idle"
               /\ ret'.ok )
             => /\ namespace \notin Members(subscribedNamespaces')
                /\ listeners'[namespace] = 0
                /\ ret' = Returned("unsubscribeFromNamespace", << namespace >>, TRUE)
          /\ ( /\ tasks[t].pc = "idle"
               /\ namespace \notin Members(subscribedNamespaces)
               /\ ret' # ret
               /\ ret'.op = "unsubscribeFromNamespace"
               /\ ret'.arg = << namespace >> )
             => /\ ret'.ok
                /\ UNCHANGED << subscribedNamespaces, listeners, subQueue, tasks, subClient >>
      ]_vars

\* A run of the 'ready' handler has ended that found n registered when it
\* started and not when it ended, the last call to finish being a
\* successful unsubscribeFromNamespace of n.
C14_Witness ==
    /\ handled.done
    /\ << "n" >> \in handled.before
    /\ << "n" >> \notin handled.after
    /\ ret = Returned("unsubscribeFromNamespace", << << "n" >> >>, TRUE)
    /\ listeners[<< "n" >>] = 0

(***************************************************************************)
(* Claims about the key codec                                              *)
(***************************************************************************)

\* C15: removing the `namespace:` prefix from _formatKey(namespace, localKey)
\* gives back exactly localKey, for every namespace and local key, also when
\* the local key contains ':' or the text `namespace:` again.
C15_KeyCodecRoundTrip ==
    ret.op = "cleanKey" => ret.val = Str(ret.arg[2])

\* The prefix was removed from the formatted key n:n:a, whose local key
\* repeats the prefix.
C15_Witness ==
    /\ ret.op = "cleanKey"
    /\ ret.arg = << << "n" >>, << "n", ":", "a" >> >>
    /\ ret.val = Str(<< "n", ":", "a" >>)

\* C16: whatever the key-format cache holds (nothing, some keys, or one key
\* after the clear at 1000 entries), _formatKey(namespace, key) returns
\* namespace, ':' and key joined, independently of earlier calls.
C16_FormatCacheTransparent ==
    ret.op = "_formatKey" =>
        ret.val = Str(ret.arg[1] \o << ":" >> \o ret.arg[2])

\* _formatKey met a cache at its limit, cleared it and left its own key as
\* the only entry.
C16_Witness ==
    /\ ret.op = "_formatKey"
    /\ ret.arg = << << "a" >>, << "n", ":", "a" >> >>
    /\ keyFormatCache = << << ret.val[2], ret.val[2] >> >>
    /\ ret.val = Str(<< "a", ":", "n", ":", "a" >>)


(***************************************************************************)
(* Claims about the disabled transform and the maintenance calls           *)
(***************************************************************************)

\* C17: with enableCompression false, every _compress(s) and _decompress(s)
\* returns s itself and leaves the compression cache, the decompression
\* cache and the hit/miss counters as they were.
C17_DisabledIsIdentity ==
    [][ (~enableCompression /\ ret'.op \in { "_compress", "_decompress" })
            => /\ ret'.ok
               /\ ret'.val = ret'.arg
               /\ UNCHANGED << compressionCache, decompressionCache, performanceStats >> ]_vars

\* With compression disabled, _compress returned the JSON text it was given.
C17_Witness ==
    /\ ~enableCompression
    /\ ret.op = "_compress"
    /\ ret.arg = Str(JSONstringify(Obj(<< << << "a" >>, Num(1) >> >>)))
    /\ ret.val = ret.arg
    /\ performanceStats = ZeroStats

\* C18: right after clearCaches() the compression, decompression and
\* key-format caches are empty, also when the call before it was a
\* clearCaches(); and a getPerformanceStats() that directly follows
\* resetPerformanceStats() reports cacheHits, cacheMisses and operationCount
\* equal to 0, whatever ran before.
C18_ClearAndReset ==
    /\ [](ret.op = "clearCaches"
            => /\ compressionCache = << >>
               /\ decompressionCache = << >>
               /\ keyFormatCache = << >>)
    /\ [][ (ret.op = "resetPerformanceStats" /\ ret'.op = "getPerformanceStats")
            => /\ ret'.val[2].cacheHits = 0
               /\ ret'.val[2].cacheMisses = 0
               /\ ret'.val[2].operationCount = 0 ]_vars

\* clearCaches() has returned on a client that, since its statistics were
\* last zero, missed both transform caches once in a setKey and a getKey of
\* the key a: the caches are empty and the counters still show the calls.
C18_Witness ==
    /\ ret.op = "clearCaches"
    /\ performanceStats = [cacheHits |-> 0, cacheMisses |-> 2, operationCount |-> 2]
    /\ store[FormatKey(<< "n" >>, << "a" >>)] # NoEntry
    /\ compressionCache = << >>
    /\ decompressionCache = << >>
    /\ keyFormatCache = << >>

(***************************************************************************)
(* Claims about failures and about hget                                    *)
(***************************************************************************)

\* C19: a public operation inside which the store round trip or the value
\* transform fails returns null or false to its caller: no call of setKey,
\* getKey, setBulk or getBulk ends by raising an error (ret.ok false).
C19_FailuresReturnNullOrFalse ==
    ret.op \in { "setKey", "getKey", "setBulk", "getBulk" } => ret.ok

\* C20: hget returns null when nothing is found: for a single field name
\* that the hash does not have, for an array of field names none of which
\* the hash has, and for an omitted field on a key that is not in the store.
C20_HgetNotFound ==
    ret.op = "hget" =>
        LET entry == store[FormatKey(ret.arg[1], ret.arg[2])]
            field == ret.arg[3]
            present(f) ==
                entry[1] = "hash" /\ \E j \in 1..Len(entry[2]) : entry[2][j][1] = f
        IN  /\ (field[1] = "string" /\ ~present(field[2])) => ret.val = Null
            /\ (field[1] = "array" /\ \A j \in 1..Len(field[2]) : ~present(field[2][j][2]))
                  => ret.val = Null
            /\ (field = Null /\ entry = NoEntry) => ret.val = Null

(***************************************************************************)
(* Claims about the main connection                                        *)
(***************************************************************************)

\* C21: every reconnect re-opens the handle the instance already owns: no
\* second handle is ever created, and a pipeline created from the handle
\* still refers to the handle this.client is.
C21_HandleIdentity ==
    /\ connection.handles = 1
    /\ connection.pipeline # 0 => connection.pipeline = connection.client

\* C22: whenever _ensureClientConnected returns normally the main client is
\* open, and no command is sent on a main client that is not open.
C22_NoCommandBeforeConnection ==
    /\ [][ \A t \in ConnectTasks :
             (connection.pc[t] # "returned" /\ connection'.pc[t] = "returned")
                => connection'.isOpen[connection'.client] ]_vars
    /\ [](ret.op = "sendCommand" => ret.ok)

(***************************************************************************)
(* Claims about the counters and the transform caches                      *)
(***************************************************************************)

\* C23: in every step that is not a resetPerformanceStats(), none of
\* cacheHits, cacheMisses and operationCount decreases, and clearCaches(),
\* optimizeCaches() and destroy() leave the three of them as they are.
C23_CountersMonotone ==
    [][ ret'.op # "resetPerformanceStats"
          => /\ performanceStats'.cacheHits >= performanceStats.cacheHits
             /\ performanceStats'.cacheMisses >= performanceStats.cacheMisses
             /\ performanceStats'.operationCount >= performanceStats.operationCount
             /\ ret'.op \in { "clearCaches", "optimizeCaches", "destroy" }
                   => performanceStats' = performanceStats ]_vars

\* destroy() has returned on a client that had counted a hit, a miss and two
\* operations: the counters still show them.
C23_Witness ==
    /\ ret.op = "destroy"
    /\ performanceStats = [cacheHits |-> 1, cacheMisses |-> 1, operationCount |-> 2]
    /\ compressionCache = << >>

\* The two callers have both finished a call of the given method that
\* missed the cache, for inputs with the same fingerprint.
BothMissed(op) ==
    /\ \A t \in RaceTasks :
          /\ inflight.call[t].pc = "done"
          /\ inflight.call[t].op = op
          /\ inflight.call[t].ok
          /\ ~inflight.call[t].hit
    /\ enableCompression
    /\ IF op = "_compress"
       THEN GetCacheKey(inflight.call[1].arg) = GetCacheKey(inflight.call[2].arg)
       ELSE CacheKeyOf(Str(inflight.call[1].arg)) = CacheKeyOf(Str(inflight.call[2].arg))

\* How many entries a cache has under a fingerprint.
EntriesFor(cache, key) == Cardinality({ i \in 1..Len(cache) : cache[i][1] = key })

\* C24: when two _compress calls, or two _decompress calls, for inputs with
\* the same fingerprint both miss, the cache ends with one entry for the
\* fingerprint, holding the result of the call that stored last, and each
\* caller has received the transform of its own input.
C24_ConcurrentMisses ==
    /\ BothMissed("_compress") =>
          LET key == GetCacheKey(inflight.call[1].arg) IN
          /\ EntriesFor(compressionCache, key) = 1
          /\ CacheGet(compressionCache, key) = inflight.call[inflight.lastStore.compress].val
          /\ \A t \in RaceTasks :
                inflight.call[t].val = DeflateBase64(inflight.call[t].arg)
    /\ BothMissed("_decompress") =>
          LET key == CacheKeyOf(Str(inflight.call[1].arg)) IN
          /\ EntriesFor(decompressionCache, key) = 1
          /\ CacheGet(decompressionCache, key)
                = inflight.call[inflight.lastStore.decompress].val
          /\ \A t \in RaceTasks :
                inflight.call[t].val = InflateBase64(Str(inflight.call[t].arg)).val

\* Two overlapping _compress calls for "Aa" and "BB" have both missed and
\* finished, the one for "BB" first.
C24_Witness ==
    /\ BothMissed("_compress")
    /\ inflight.call[1].arg = << "A", "a" >>
    /\ inflight.call[2].arg = << "B", "B" >>
    /\ inflight.lastStore.compress = 1
    /\ performanceStats.cacheMisses = 2
    /\ performanceStats.cacheHits = 0

(***************************************************************************)
(* The round trips of getNamespaceSnapshot                                 *)
(***************************************************************************)

\* The number of slices of batchSize keys that n keys make: ceil(n / b).
SliceCount(n, b) == (n + b - 1) \div b

\* The m-th slice of batchSize keys, by position in the listing.
Slice(keys, b, m) ==
    SubSeq(keys, (m - 1) * b + 1, IF m * b < Len(keys) THEN m * b ELSE Len(keys))

\* s is t with some of its elements left out.
IsSubSeq(s, t) ==
    \E pos \in [1..Len(s) -> 1..Len(t)] :
        /\ \A j \in 1..Len(s) : s[j] = t[pos[j]]
        /\ \A j \in 1..Len(s), k \in 1..Len(s) : j < k => pos[j] < pos[k]

\* C25: within one getNamespaceSnapshot call the round trips go one at a
\* time, every one answered before the next is submitted: first the listing
\* of the namespace, then for each slice of batchSize keys, in order, the
\* type pipeline of the slice followed by its value pipeline; a call over
\* n > 0 keys that returns has made the listing and exactly ceil(n / b) such
\* pairs.
C25_RoundTripOrder ==
    LET t == snapshot.trips
        n == Len(snapshot.keys)
        b == snapshot.batchSize
    IN  (snapshot.calls > 0 /\ n > 0) =>
           /\ Len(t) >= 1 /\ t[1].kind = "keys"
           /\ \A k \in 1..Len(t) - 1 : t[k].answered
           /\ t[Len(t)].answered <=> snapshot.pc = "done"
           /\ Len(t) <= 1 + 2 * SliceCount(n, b)
           /\ \A m \in 1..SliceCount(n, b) :
                 /\ 2 * m <= Len(t) =>
                       /\ t[2 * m].kind = "type"
                       /\ t[2 * m].keys = Slice(snapshot.keys, b, m)
                 /\ 2 * m + 1 <= Len(t) =>
                       /\ t[2 * m + 1].kind = "value"
                       /\ IsSubSeq(t[2 * m + 1].keys, Slice(snapshot.keys, b, m))
           /\ (snapshot.pc = "done" /\ ret.ok) => Len(t) = 1 + 2 * SliceCount(n, b)

\* A call over two keys with batch size 1 has returned after the listing
\* and two pairs of pipelines.
C25_Witness ==
    /\ snapshot.pc = "done"
    /\ ret.op = "getNamespaceSnapshot" /\ ret.ok
    /\ Len(snapshot.keys) = 2
    /\ snapshot.batchSize = 1
    /\ Len(snapshot.trips) = 5

\* C26: a getNamespaceSnapshot call on a namespace without keys returns the
\* empty object right after the listing: no type pipeline and no value
\* pipeline is submitted.
C26_EmptyNamespace ==
    (snapshot.calls > 0 /\ Len(snapshot.keys) = 0) =>
        /\ snapshot.pc = "done"
        /\ ret = [op |-> "getNamespaceSnapshot",
                  arg |-> << snapshot.namespace, snapshot.batchSize >>,
                  ok |-> TRUE, val |-> Obj(<< >>)]
        /\ snapshot.trips = Answered(<< Trip("keys", << >>) >>)

\* A call on a namespace without keys has returned.
C26_Witness ==
    /\ snapshot.calls > 0
    /\ Len(snapshot.keys) = 0
    /\ snapshot.pc = "done"
    /\ ret.op = "getNamespaceSnapshot"
    /\ \A k \in RedisKeys : store[k] = NoEntry

\* The keys a pipeline of the call had a command for.
Commanded(trip) == { trip.keys[r] : r \in 1..Len(trip.keys) }

\* C29: in the step of getNamespaceSnapshot that processes a batch, a key
\* whose type query answered "none" had no command in the value pipeline
\* and has no property in the result, and every other key of the batch
\* had a command and has under its stripped name the value made from the
\* reply to the command queued for that same key, wherever the "none" keys
\* stand in the batch.
C29_PairingSkipsNone ==
    [][ (snapshot.pc = "value" /\ snapshot'.i # snapshot.i) =>
          LET batch == Batch(snapshot.keys, snapshot.i, snapshot.batchSize)
              types == snapshot.typeResults
              fetch == snapshot.trips[Len(snapshot.trips)]
              names == Requested(EntryKeys(snapshot'.result))
          IN  /\ fetch.kind = "value"
              /\ \A j \in 1..Len(batch) :
                    IF types[j] = "none"
                    THEN /\ batch[j] \notin Commanded(fetch)
                         /\ CleanKey(batch[j]) \notin names
                    ELSE /\ batch[j] \in Commanded(fetch)
                         /\ CleanKey(batch[j]) \in names
                         /\ \E reversed \in BOOLEAN :
                               EntryValue(snapshot'.result, CleanKey(batch[j]))
                                 = ProcessValue(types[j],
                                                ValueReply(types[j], store[batch[j]],
                                                           reversed).val,
                                                decompressionCache',
                                                performanceStats).val ]_vars

\* A call with batch size 2 has returned one property for a batch whose
\* first key had been deleted when its type was asked for.
C29_Witness ==
    /\ snapshot.pc = "done"
    /\ ret.op = "getNamespaceSnapshot" /\ ret.ok
    /\ snapshot.batchSize = 2
    /\ snapshot.typeResults = << "none", "string" >>
    /\ Len(ret.val[2]) = 1
    /\ ret.val[2][1][1] = CleanKey(snapshot.keys[2])

(***************************************************************************)
(* The pipeline of setBulk                                                 *)
(***************************************************************************)

\* The positions of a pipeline that hold the given command for the key.
CommandsFor(pipeline, name, key) ==
    { p \in 1..Len(pipeline) : pipeline[p][1] = name /\ pipeline[p][2] = key }

\* The texts _compress can return for the serialized values of the entries.
CompressedTexts(entries) ==
    { Serialize(entries[i][2]) : i \in 1..Len(entries) }
    \cup { DeflateBase64(Serialize(v)) : v \in BulkValues }

\* C27: the one pipeline setBulk submits holds exactly one set command per
\* entry, for the formatted key and with a text that _compress returned;
\* when the ttl is given, one expire command for the same key stands
\* directly after each set and there is no other command; when the ttl is
\* missing or 0, the pipeline holds no expire command; after the call the
\* store holds the text of each set command.
C27_BulkWriteShape ==
    (ret.op = "setBulk" /\ ret.ok) =>
        LET entries == lastWrite.entries
            ttl == lastWrite.ttl
            pipeline == lastWrite.pipeline
            key(i) == FormatKey(lastWrite.namespace, entries[i][1])
        IN  /\ lastWrite.op = "setBulk"
            /\ ret.arg = << lastWrite.namespace, entries >>
            /\ Len(pipeline) = IF ttl # 0 THEN 2 * Len(entries) ELSE Len(entries)
            /\ \A p \in 1..Len(pipeline) : pipeline[p][1] \in { "set", "expire" }
            /\ \A i \in 1..Len(entries) :
                  /\ Cardinality(CommandsFor(pipeline, "set", key(i))) = 1
                  /\ \A p \in CommandsFor(pipeline, "set", key(i)) :
                        /\ pipeline[p][3] \in CompressedTexts(entries)
                        /\ ~enableCompression => pipeline[p][3] = Serialize(entries[i][2])
                        /\ store[key(i)] = << "string", pipeline[p][3] >>
                        /\ ttl # 0 => /\ p + 1 <= Len(pipeline)
                                      /\ pipeline[p + 1] = << "expire", key(i), ttl >>
                  /\ Cardinality(CommandsFor(pipeline, "expire", key(i)))
                        = IF ttl # 0 THEN 1 ELSE 0
                  /\ key(i) \in expires <=> ttl # 0

\* setBulk has written two entries with a ttl: its pipeline holds four
\* commands.
C27_Witness ==
    /\ ret.op = "setBulk" /\ ret.ok
    /\ Len(lastWrite.entries) = 2
    /\ lastWrite.ttl = 60
    /\ Len(lastWrite.pipeline) = 4
    /\ enableCompression

(***************************************************************************)
(* The eviction step                                                       *)
(***************************************************************************)

\* What a transform cache has to hold after a miss has stored an entry: at
\* or above the ceiling the floor(ceiling * 0.2) entries inserted earliest
\* are gone, the others keep their order, and the new entry is the last.
AfterMiss(cache, ceiling, entry) ==
    LET n == (ceiling * 2) \div 10
    IN  IF Len(cache) >= ceiling
        THEN Append(SubSeq(cache, n + 1, Len(cache)), entry)
        ELSE Append(cache, entry)

\* C28: a miss that stores into a transform cache whose size is at or above
\* the ceiling first removes exactly floor(ceiling * 0.2) entries, the ones
\* inserted earliest, and a hit leaves the cache, with the order of its
\* entries, as it is.
C28_EvictionStep ==
    [][ LET ceiling == performanceThresholds.cacheSize
            missed == performanceStats'.cacheMisses = performanceStats.cacheMisses + 1
            hit == performanceStats'.cacheHits = performanceStats.cacheHits + 1
        IN  /\ (ret'.op = "_compress" /\ missed) =>
                  compressionCache'
                    = AfterMiss(compressionCache, ceiling,
                                << GetCacheKey(ret'.arg[2]), ret'.val[2] >>)
            /\ (ret'.op = "_decompress" /\ missed /\ ret'.ok) =>
                  decompressionCache'
                    = AfterMiss(decompressionCache, ceiling,
                                << GetCacheKey(ret'.arg[2]), ret'.val[2] >>)
            /\ (ret'.op \in { "_compress", "_decompress" } /\ hit) =>
                  UNCHANGED << compressionCache, decompressionCache >> ]_vars

\* With ceiling 5 and a full compression cache, the oldest entry was read
\* by a hit and then removed by the next miss, while the four entries
\* inserted after it are still there.
C28_Witness ==
    /\ performanceThresholds.cacheSize = 5
    /\ ret.op = "_compress"
    /\ performanceStats.cacheHits = 1
    /\ performanceStats.cacheMisses = 1
    /\ Len(compressionCache) = 5
    /\ ~CacheHas(compressionCache, GetCacheKey(EvictTexts[1]))
    /\ \A i \in 2..5 : compressionCache[i - 1][1] = GetCacheKey(EvictTexts[i])

(***************************************************************************)
(* Claims about getNamespaceStringValues                                   *)
(***************************************************************************)

\* C30: getNamespaceStringValues makes no type query, only the listing and
\* one getBulk per slice of at most batchSize keys, and on a namespace whose
\* keys are all string keys it returns the mapping getNamespaceSnapshot
\* returns for the same namespace and batch size.
C30_StringValuesEqualSnapshot ==
    ( /\ ret.op = "getBulkBatched"
      /\ batched.pc = "done"
      /\ snapshot.pc = "done" /\ snapshot.calls > 0
      /\ ret.arg[1] = snapshot.namespace
      /\ ret.arg[3] = snapshot.batchSize )
    => /\ ret.ok
       /\ batched.submitted = Chunks(batched.items, batched.batchSize)
       /\ ret.val[1] = "mapping"
       /\ DOMAIN ret.val[2] = Requested(EntryKeys(snapshot.result))
       /\ \A k \in DOMAIN ret.val[2] : ret.val[2][k] = EntryValue(snapshot.result, k)

(***************************************************************************)
(* Claims about failures of the subscription calls                         *)
(***************************************************************************)

C32_UnsubscribeFailure ==
    /\ [][ \A t \in AppTasks :
             (tasks[t].pc = "punsub" /\ tasks'[t].pc = "idle" /\ ~ret'.ok)
                => /\ ret' = Returned("unsubscribeFromNamespace", tasks[t].namespaces, FALSE)
                   /\ tasks[t].namespaces[1] \in Members(subscribedNamespaces')
                   /\ UNCHANGED << subscribedNamespaces, listeners >> ]_vars
    /\ [][ (subClient = "reconnecting" /\ subClient' = "ready")
              => Members(subscribedNamespaces) \subseteq unissued' ]_vars

\* The unsubscribeFromNamespace of n has failed while the connection was
\* down; the connection is back and n, still in the registry, is to be
\* subscribed again.
C32_Witness ==
    /\ ret = Returned("unsubscribeFromNamespace", << << "n" >> >>, FALSE)
    /\ << "n" >> \in Members(subscribedNamespaces)
    /\ subClient = "ready"
    /\ disconnects = 1
    /\ << "n" >> \in unissued

(***************************************************************************)
(* subscribeToKeyspaceEvents called side by side                           *)
(***************************************************************************)

\* How many subscribeToKeyspaceEvents calls the overlapping callers make.
MaxOverlapCalls == 3

overlapUnchanged ==
    << transformVars, storeVars, tasks, subQueue, disconnects, subscribeCalls,
       lastDelivery, unissued, handled, configSets, snapshot, batched,
       connection, inflight >>

\* A test that creates a client for every call that finds none open.
CreateSubClientEach(s, state) == state # "ready"

\* if (!this.subClient): whether the call creates the notification client.
CreateSubClient(s, state) == s.client = 0

\* The lines from the test of this.subClient to the await that follows it:
\* _initializeSubClient creates the handle, stores it in this.subClient and
\* starts its connect before it awaits anything; a call that finds a handle
\* awaits the handle's connection promise.
SubClientCheck(s, state, t) ==
    IF CreateSubClient(s, state)
    THEN [s EXCEPT !.handles = @ + 1, !.client = s.handles + 1, !.pc[t] = "connect"]
    ELSE [s EXCEPT !.pc[t] = "connect"]

\* The connection state after the test: a new handle starts to connect.
SubClientState(s, state) ==
    IF CreateSubClient(s, state) THEN "connecting" ELSE state

\* A caller calls subscribeToKeyspaceEvents(namespace) and runs to its first
\* await: the configuration block, or the wait for the notification client.
OverlapSubscribe(t, namespace) ==
    /\ subscription.pc[t] = "idle"
    /\ subscription.calls < MaxOverlapCalls
    /\ LET called == [subscription EXCEPT !.namespace[t] = namespace,
                                          !.calls = @ + 1]
       IN  IF ~keyspaceEventsConfigured
           THEN /\ subscription' = [called EXCEPT !.pc[t] = "config"]
                /\ UNCHANGED subClient
           ELSE /\ subscription' = SubClientCheck(called, subClient, t)
                /\ subClient' = SubClientState(called, subClient)
    /\ UNCHANGED << overlapUnchanged, ret, keyspaceEventsConfigured,
                    subscribedNamespaces, listeners >>

\* The configuration block of a call ends, with the flag set or with the
\* error logged, and the call goes on to the test of this.subClient.
OverlapConfigSet(t, ok) ==
    /\ subscription.pc[t] = "config"
    /\ keyspaceEventsConfigured' = (keyspaceEventsConfigured \/ ok)
    /\ subscription' = SubClientCheck(subscription, subClient, t)
    /\ subClient' = SubClientState(subscription, subClient)
    /\ UNCHANGED << overlapUnchanged, ret, subscribedNamespaces, listeners >>

\* The connect of the notification client ends: the connection is open, or
\* the error is logged and the client stays closed.
OverlapConnect(ok) ==
    /\ subClient = "connecting"
    /\ subClient' = IF ok THEN "ready" ELSE "closed"
    /\ UNCHANGED << overlapUnchanged, ret, keyspaceEventsConfigured,
                    subscribedNamespaces, listeners, subscription >>

\* A call that waited for the connection promise goes on: it sends its
\* pSubscribe on the handle this.subClient refers to.
OverlapSend(t) ==
    /\ subscription.pc[t] = "connect"
    /\ subClient # "connecting"
    /\ subscription' = [subscription EXCEPT !.pc[t] = "psub",
                                            !.sentOn[t] = subscription.client]
    /\ UNCHANGED << overlapUnchanged, ret, keyspaceEventsConfigured, subClient,
                    subscribedNamespaces, listeners >>

\* The pSubscribe of a call is answered: the pattern is registered on the
\* handle it was sent on, the namespace joins the registry, the call returns.
OverlapPSubscribe(t) ==
    /\ subscription.pc[t] = "psub"
    /\ subClient = "ready"
    /\ LET namespace == subscription.namespace[t]
       IN  /\ subscription' =
                 [subscription EXCEPT !.pc[t] = "idle",
                     !.patterns = @ \cup { << namespace, subscription.sentOn[t] >> }]
           /\ listeners' = [listeners EXCEPT ![namespace] = @ + 1]
           /\ subscribedNamespaces' = RegistryAdd(subscribedNamespaces, namespace)
           /\ ret' = Returned("subscribeToKeyspaceEvents", << namespace >>, TRUE)
    /\ UNCHANGED << overlapUnchanged, keyspaceEventsConfigured, subClient >>

\* The pSubscribe of a call fails on the closed client: the call raises.
OverlapPSubscribeFails(t) ==
    /\ subscription.pc[t] = "psub"
    /\ subClient = "closed"
    /\ subscription' = [subscription EXCEPT !.pc[t] = "idle"]
    /\ ret' = Returned("subscribeToKeyspaceEvents", << subscription.namespace[t] >>, FALSE)
    /\ UNCHANGED << overlapUnchanged, keyspaceEventsConfigured, subClient,
                    subscribedNamespaces, listeners >>

InitOverlap ==
    /\ InitNotify

NextOverlap ==
    \/ \E t \in SubscribeTasks, namespace \in SubscriptionNamespaces :
          OverlapSubscribe(t, namespace)
    \/ \E t \in SubscribeTasks, ok \in BOOLEAN : OverlapConfigSet(t, ok)
    \/ \E ok \in BOOLEAN : OverlapConnect(ok)
    \/ \E t \in SubscribeTasks : OverlapSend(t)
    \/ \E t \in SubscribeTasks : OverlapPSubscribe(t)
    \/ \E t \in SubscribeTasks : OverlapPSubscribeFails(t)

SpecOverlap == InitOverlap /\ [][NextOverlap]_vars

(***************************************************************************)
(* Claims about subscribeToKeyspaceEvents called side by side              *)
(***************************************************************************)

\* C33: however subscribeToKeyspaceEvents calls overlap, two calls that both
\* start while this.subClient is null included, at most one notification
\* handle is ever created, every call in flight sent its pSubscribe on the
\* handle this.subClient refers to, and every pattern is registered on it.
C33_SingleNotificationHandle ==
    /\ subscription.handles <= 1
    /\ subscription.client = subscription.handles
    /\ \A pattern \in subscription.patterns : pattern[2] = subscription.client
    /\ \A t \in SubscribeTasks :
          subscription.pc[t] = "psub" => subscription.sentOn[t] = subscription.client

\* Two calls started while there was no notification client, and both
\* registered their patterns.
C33_Witness ==
    /\ subscription.calls = 2
    /\ subscription.patterns = { << << "n" >>, 1 >>, << << "m" >>, 1 >> }
    /\ \A t \in SubscribeTasks : subscription.pc[t] = "idle"
    /\ ~keyspaceEventsConfigured

(***************************************************************************)
(* setBulk and setBulkBatched with an entry that cannot be serialized      *)
(***************************************************************************)

\* A value JSON.stringify throws on (a BigInt): _serialize throws for it.
Unserializable == << "BigInt", << "1" >> >>

Serializable(value) == value # Unserializable

\* The keyValuePairs objects with and without such a value.
ThrowingEntries ==
    { e \in SeqsUpTo(LocalKeys \X (BulkValues \cup { Unserializable }), MaxBulk) :
        \A i, j \in 1..Len(e) : i # j => e[i][1] # e[j][1] }

\* The entries whose callback gets past _serialize.
SerializableOf(entries) == SelectSeq(entries, LAMBDA e : Serializable(e[2]))

\* The serialized values of the entries that have one.
SerializedOf(entries) ==
    [i \in 1..Len(SerializableOf(entries)) |-> Serialize(SerializableOf(entries)[i][2])]

\* The entries that stand before the first one that cannot be serialized.
BeforeThrow(entries) ==
    IF \A i \in 1..Len(entries) : Serializable(entries[i][2]) THEN entries
    ELSE SubSeq(entries, 1,
                (CHOOSE i \in 1..Len(entries) :
                    /\ ~Serializable(entries[i][2])
                    /\ \A j \in 1..(i - 1) : Serializable(entries[j][2])) - 1)

\* A setBulk that writes each entry as soon as its text is there: the
\* entries before the one that throws are in the store when the call raises.
SetBulkThrowsPartial(namespace, entries, ttl, order) ==
    /\ \E i \in 1..Len(entries) : ~Serializable(entries[i][2])
    /\ Budget(Len(entries))
    /\ LET c == BulkCompress(compressionCache, performanceStats,
                             SerializedOf(entries), order)
           first == BeforeThrow(entries)
           redisKeys == FormatKeys(keyFormatCache, namespace,
                                   [i \in 1..Len(first) |-> first[i][1]])
       IN  /\ compressionCache' = c.cache
           /\ performanceStats' = c.stats
           /\ keyFormatCache' = redisKeys.cache
           /\ store' = PipelineSet(store, redisKeys.val, SubSeq(c.val, 1, Len(first)))
    /\ ret' = [op |-> "setBulk", arg |-> << namespace, entries >>, ok |-> FALSE,
               val |-> Undefined]
    /\ UNCHANGED << enableCompression, performanceThresholds, decompressionCache,
                    expires, lastWrite, notifyVars, snapshot, batched, connection,
                    inflight, subscription >>

\* setBulk on entries of which one cannot be serialized: every callback of
\* entries.map runs to its first await, so the other entries are looked up
\* in the compression cache and deflated, but Promise.all rejects before the
\* loop that fills the pipeline, and the catch rethrows.
SetBulkThrows(namespace, entries, ttl, order) ==
    /\ \E i \in 1..Len(entries) : ~Serializable(entries[i][2])
    /\ Budget(Len(entries))
    /\ LET c == BulkCompress(compressionCache, performanceStats,
                             SerializedOf(entries), order)
       IN  /\ compressionCache' = c.cache
           /\ performanceStats' = c.stats
    /\ ret' = [op |-> "setBulk", arg |-> << namespace, entries >>, ok |-> FALSE,
               val |-> Undefined]
    /\ UNCHANGED << enableCompression, performanceThresholds, decompressionCache,
                    storeVars, notifyVars, snapshot, batched, connection, inflight,
                    subscription >>

NextThrows ==
    \/ \E ns \in Namespaces, e \in BulkEntries, ttl \in TTLs :
          \E order \in CompletionOrders(Len(e)) : SetBulk(ns, e, ttl, order)
    \/ \E ns \in Namespaces, e \in ThrowingEntries, ttl \in TTLs :
          \E order \in CompletionOrders(Len(SerializableOf(e))) :
             SetBulkThrows(ns, e, ttl, order)
    \/ \E ns \in Namespaces, keys \in KeyLists :
          \E order \in CompletionOrders(Len(keys)) : GetBulk(ns, keys, order)

\* A client whose setBulk is called with entries that can and that cannot
\* be serialized.
SpecThrows == InitStore /\ [][NextThrows]_vars

\* A setBulkBatched that logs the error of a slice and goes on with the next.
SetBulkRejectsSkips(order) ==
    /\ batched.pc = "await"
    /\ batched.op = "setBulkBatched"
    /\ \E j \in 1..Len(InFlight) : ~Serializable(InFlight[j][2])
    /\ LET c == BulkCompress(compressionCache, performanceStats,
                             SerializedOf(InFlight), order)
           call == Continued(batched.results)
       IN  /\ compressionCache' = c.cache
           /\ performanceStats' = c.stats
           /\ batched' = call
           /\ ret' = IF call.pc = "done"
                     THEN [op |-> "setBulkBatched",
                           arg |-> << batched.namespace, batched.items, batched.batchSize >>,
                           ok |-> TRUE, val |-> Arr(batched.results)]
                     ELSE ret
    /\ UNCHANGED << enableCompression, performanceThresholds, decompressionCache,
                    storeVars, notifyVars, snapshot, connection, inflight,
                    subscription >>

\* The setBulk that setBulkBatched awaits rejects, one entry of its slice
\* being impossible to serialize: the await throws out of the loop and out
\* of setBulkBatched, which has no try around it.
SetBulkRejects(order) ==
    /\ batched.pc = "await"
    /\ batched.op = "setBulkBatched"
    /\ \E j \in 1..Len(InFlight) : ~Serializable(InFlight[j][2])
    /\ LET c == BulkCompress(compressionCache, performanceStats,
                             SerializedOf(InFlight), order)
       IN  /\ compressionCache' = c.cache
           /\ performanceStats' = c.stats
    /\ batched' = [batched EXCEPT !.pc = "done"]
    /\ ret' = [op |-> "setBulkBatched",
               arg |-> << batched.namespace, batched.items, batched.batchSize >>,
               ok |-> FALSE, val |-> Undefined]
    /\ UNCHANGED << enableCompression, performanceThresholds, decompressionCache,
                    storeVars, notifyVars, snapshot, connection, inflight,
                    subscription >>

\* Whether every entry of the slice in flight can be serialized.
InFlightSerializable == \A j \in 1..Len(InFlight) : Serializable(InFlight[j][2])

NextBatchedThrows ==
    \/ \E ns \in Namespaces, e \in ThrowingEntries, b \in 1..MaxBatchSize, ttl \in TTLs :
          BatchedCall("setBulkBatched", ns, e, b, ttl)
    \/ /\ InFlightSerializable
       /\ \E order \in CompletionOrders(Len(InFlight)) : SetBulkCompletes(order)
    \/ \E order \in CompletionOrders(Len(SerializableOf(InFlight))) : SetBulkRejects(order)

\* A client whose setBulkBatched is called, on an empty store, with entries
\* that can and that cannot be serialized.
SpecBatchedThrows == InitStore /\ [][NextBatchedThrows]_vars

(***************************************************************************)
(* Claims about bulk writes that fail                                      *)
(***************************************************************************)

\* C34: a setBulk with an entry whose serialization fails raises the error,
\* and the step in which it raises submits no set and no expire command: the
\* store, the expiries and the record of the last pipeline are unchanged.
C34_NoPartialBulkWrite ==
    /\ [](ret.op = "setBulk" =>
             (ret.ok <=> \A i \in 1..Len(ret.arg[2]) : Serializable(ret.arg[2][i][2])))
    /\ [][ (ret'.op = "setBulk" /\ ~ret'.ok)
              => UNCHANGED << store, expires, lastWrite >> ]_vars

\* A setBulk whose second entry cannot be serialized has raised: its first
\* entry was deflated and is in the compression cache, and the store holds
\* neither key.
C34_Witness ==
    /\ ret = [op |-> "setBulk",
              arg |-> << << "n" >>, << << << "a" >>, Num(42) >>,
                                        << << "b" >>, Unserializable >> >> >>,
              ok |-> FALSE, val |-> Undefined]
    /\ enableCompression
    /\ Len(compressionCache) = 1
    /\ performanceStats.cacheMisses = 1
    /\ store = EmptyStore
    /\ lastWrite.op # "setBulk"

\* The slice an item of the batched call belongs to.
SliceOf(j) == ((j - 1) \div batched.batchSize) + 1

\* The texts _compress can give back for a text: the text itself without
\* compression; with it the compressed text, or what the compression cache
\* holds under the same fingerprint.
WrittenTexts(text) ==
    IF enableCompression
    THEN { DeflateBase64(text) }
         \cup { DeflateBase64(Serialize(v)) :
                   v \in { w \in BulkValues : GetCacheKey(Serialize(w)) = GetCacheKey(text) } }
    ELSE { text }

\* C36: when the setBulk of slice i fails, setBulkBatched raises the error
\* in that step, writes nothing and submits nothing more; every step of the
\* call writes the entries of the slice in flight and leaves every other
\* entry of the call as it is, so that the slices before i are written and
\* stay written and no slice after i is written; and the store does not
\* change once the call has ended.
C36_NoRollback ==
    /\ [][ (batched.pc = "await" /\ batched.op = "setBulkBatched" /\ ~InFlightSerializable)
              => /\ ret' = [op |-> "setBulkBatched",
                            arg |-> << batched.namespace, batched.items, batched.batchSize >>,
                            ok |-> FALSE, val |-> Undefined]
                 /\ batched'.pc = "done"
                 /\ batched'.submitted = batched.submitted
                 /\ UNCHANGED << store, expires >> ]_vars
    /\ [][ (batched.pc = "await" /\ batched.op = "setBulkBatched")
              => \A j \in 1..Len(batched.items) :
                    LET redisKey == FormatKey(batched.namespace, batched.items[j][1])
                    IN  IF SliceOf(j) = Len(batched.submitted) /\ InFlightSerializable
                        THEN /\ store'[redisKey][1] = "string"
                             /\ store'[redisKey][2] \in
                                   WrittenTexts(Serialize(batched.items[j][2]))
                             /\ redisKey \in expires' <=> batched.ttl # 0
                        ELSE /\ store'[redisKey] = store[redisKey]
                             /\ redisKey \in expires' <=> redisKey \in expires ]_vars
    /\ [][ (batched.pc = "done" /\ batched'.pc = "done") => UNCHANGED << store, expires >> ]_vars
    /\ []((batched.pc = "done" /\ ret.op = "setBulkBatched" /\ ~ret.ok) =>
            /\ Len(batched.submitted) = batched.completed + 1
            /\ \A j \in 1..Len(batched.items) :
                  LET redisKey == FormatKey(batched.namespace, batched.items[j][1])
                  IN  SliceOf(j) < Len(batched.submitted)
                        => /\ store[redisKey][1] = "string"
                           /\ store[redisKey][2] \in
                                 WrittenTexts(Serialize(batched.items[j][2]))
                           /\ redisKey \in expires <=> batched.ttl # 0)

\* A setBulkBatched of two entries in batches of one has raised on its
\* second slice: the first entry is in the store, with its expiry.
C36_Witness ==
    /\ batched.pc = "done"
    /\ ret.op = "setBulkBatched" /\ ~ret.ok
    /\ batched.batchSize = 1
    /\ Len(batched.items) = 2
    /\ Len(batched.submitted) = 2
    /\ batched.completed = 1
    /\ store[FormatKey(<< "n" >>, << "a" >>)] = << "string", << "4", "2" >> >>
    /\ FormatKey(<< "n" >>, << "a" >>) \in expires
    /\ store[FormatKey(<< "n" >>, << "b" >>)] = NoEntry

(***************************************************************************)
(* setKey whose expire round trip fails                                    *)
(***************************************************************************)

\* setKey with an expirationInSeconds, when the set round trip succeeds and
\* the expire round trip that follows it is rejected: the value is in the
\* store (a SET discards the expiry the key had), the catch logs and
\* rethrows, and _logPerformance is not reached.
SetKeyExpireFails(namespace, key, value, ttl) ==
    /\ ttl # 0
    /\ Budget(1)
    /\ LET redisKey == FormatKeyCached(keyFormatCache, namespace, key)
           c == CompressCall(compressionCache, performanceStats, Serialize(value))
       IN  /\ keyFormatCache' = redisKey.cache
           /\ compressionCache' = c.cache
           /\ store' = [store EXCEPT ![redisKey.val] = << "string", c.val >>]
           /\ expires' = expires \ { redisKey.val }
           /\ performanceStats' = c.stats
    /\ lastWrite' = [op |-> "setKey", namespace |-> namespace,
                     entries |-> << << key, value >> >>, ttl |-> ttl]
    /\ ret' = [op |-> "setKey", arg |-> << namespace, key >>, ok |-> FALSE, val |-> Undefined]
    /\ UNCHANGED << enableCompression, performanceThresholds, decompressionCache,
                    notifyVars, snapshot, batched, connection, inflight, subscription >>

NextSetKey ==
    \/ \E ns \in Namespaces, k \in LocalKeys, v \in AppValues, ttl \in TTLs :
          SetKey(ns, k, v, ttl)
    \/ \E ns \in Namespaces, k \in LocalKeys, v \in AppValues, ttl \in TTLs :
          SetKeyExpireFails(ns, k, v, ttl)
    \/ \E ns \in Namespaces, k \in LocalKeys : GetKey(ns, k)

\* A client whose setKey round trips succeed or fail at the expire.
SpecSetKey == InitStore /\ [][NextSetKey]_vars

(***************************************************************************)
(* Claims about setKey with a time to live                                 *)
(***************************************************************************)

\* C35: after a setKey with a ttl above 0 has ended, normally or with an
\* error, the store does not hold the value of that call under the key
\* without an expiry.
C35_SetKeyAllOrNothing ==
    (ret.op = "setKey" /\ lastWrite.op = "setKey" /\ lastWrite.ttl # 0) =>
        LET redisKey == FormatKey(lastWrite.namespace, lastWrite.entries[1][1])
            text == Serialize(lastWrite.entries[1][2])
        IN  store[redisKey] \in { << "string", text >>, << "string", DeflateBase64(text) >> }
               => redisKey \in expires

(***************************************************************************)
(* The batched loops with a batchSize of 0                                 *)
(***************************************************************************)

\* The number of completed bulk operations up to which a batched call is
\* followed.
MaxRounds == 4

NextLoop ==
    \/ \E ns \in Namespaces, e \in BulkEntries, b \in 0..MaxBatchSize, ttl \in TTLs :
          BatchedCall("setBulkBatched", ns, e, b, ttl)
    \/ \E ns \in Namespaces, keys \in BatchedKeyLists, b \in 0..MaxBatchSize :
          BatchedCall("getBulkBatched", ns, keys, b, 0)
    \/ /\ batched.completed < MaxRounds
       /\ \E order \in CompletionOrders(Len(InFlight)) : SetBulkCompletes(order)
    \/ /\ batched.completed < MaxRounds
       /\ \E order \in CompletionOrders(Len(InFlight)) : GetBulkCompletes(order)

\* A client whose setBulkBatched and getBulkBatched are called with any
\* batchSize from 0 on, every bulk operation they await completing.
SpecLoop == InitBatched /\ [][NextLoop]_vars

(***************************************************************************)
(* Claims about the termination of the batched loops                       *)
(***************************************************************************)

\* C37: a batched call over n items finishes after finitely many batches,
\* whatever batchSize it is given: it never completes more bulk operations
\* than it has items, and a completed bulk operation that does not end the
\* call moves the loop on to a later item.
C37_BatchedLoopsTerminate ==
    /\ [](batched.pc # "idle" => batched.completed <= Len(batched.items))
    /\ [][ (batched.pc = "await" /\ batched'.pc = "await") => batched'.i > batched.i ]_vars

(***************************************************************************)
(* optimizeCaches on caches that are as full as they get                   *)
(***************************************************************************)

\* The compression cache after _compress has missed on the decimal texts
\* "1" to "k", which have pairwise different fingerprints.
MissedCompression(k) ==
    [i \in 1..k |-> << GetCacheKey(NatToString(i, 10)), DeflateBase64(NatToString(i, 10)) >>]

\* The decompression cache after _decompress has missed on the compressed
\* forms of the same texts.
MissedDecompression(k) ==
    [i \in 1..k |-> << GetCacheKey(DeflateBase64(NatToString(i, 10))), NatToString(i, 10) >>]

\* The texts _compress is called with on the filled caches: one that is
\* cached and one that is not.
OptimizeTexts == { << "1" >>, << "a" >> }

\* The keys _formatKey is called with: one that is cached and one that is not.
OptimizeKeys == { << "1" >>, << "a" >> }

\* A client with the constructor's thresholds whose transform caches hold
\* one entry less than the ceiling, or as many as the ceiling, and whose
\* key-format cache is one entry short of its limit or at it, right after
\* resetPerformanceStats().
InitOptimize ==
    \E c \in { COMPRESSION_CACHE_MAX_SIZE - 1, COMPRESSION_CACHE_MAX_SIZE },
       k \in { KEY_FORMAT_CACHE_MAX - 1, KEY_FORMAT_CACHE_MAX } :
        RunningWith(TRUE, [hasCacheSize |-> TRUE, cacheSize |-> COMPRESSION_CACHE_MAX_SIZE],
                    EmptyStore, FilledCache(k), MissedCompression(c),
                    MissedDecompression(c))

NextOptimize ==
    \/ \E str \in OptimizeTexts : Compress(str)
    \/ \E str \in OptimizeTexts : Decompress(Str(DeflateBase64(str)))
    \/ \E k \in OptimizeKeys : FormatKeyCall(<< "n" >>, k)
    \/ OptimizeCaches

\* A client with full caches whose transforms, _formatKey and
\* optimizeCaches are called in any order.
SpecOptimize == InitOptimize /\ [][NextOptimize]_vars

(***************************************************************************)
(* Claims about optimizeCaches                                             *)
(***************************************************************************)

\* The caches hold as many entries as they ever hold with the constructor's
\* thresholds: the transform caches are at their ceiling and the key-format
\* cache is at its limit.
CachesFullest ==
    /\ Len(compressionCache) = performanceThresholds.cacheSize
    /\ Len(decompressionCache) = performanceThresholds.cacheSize
    /\ Len(keyFormatCache) = KEY_FORMAT_CACHE_MAX

\* C38: the thresholds of optimizeCaches can be exceeded with the default
\* performanceThresholds: called on caches that are as full as they get,
\* optimizeCaches removes at least one entry from the compression, the
\* decompression or the key-format cache.
C38_OptimizeCachesRemoves ==
    [][ (CachesFullest /\ ret'.op = "optimizeCaches")
           => \/ Len(compressionCache') < Len(compressionCache)
              \/ Len(decompressionCache') < Len(decompressionCache)
              \/ Len(keyFormatCache') < Len(keyFormatCache) ]_vars

=============================================================================
